---- MODULE Spec2Model ----
(***************************************************************************)
(* State-machine model of the retrieval / grading / generation workflow of *)
(* rag_workflow.py (RAGWorkflow), together with the two call sites that    *)
(* submit questions to it: app.handle_user_interaction and the variant     *)
(* loop of GiskardEvaluator.evaluate_robustness.                           *)
(*                                                                         *)
(* Strings are sequences of characters, so that str.strip, str.replace and *)
(* the fallback template are computed rather than assumed.                 *)
(***************************************************************************)
EXTENDS Integers, Sequences, FiniteSets, TLC

VARIABLES
    pc,                      \* position of the current interaction / graph run
    via,                     \* call site of the current interaction
    submitted,               \* the question text handed to that call site
    asked,                   \* whether the call site was asked to submit it
    uiWarning,               \* st.warning shown by handle_user_interaction
    question,                \* GraphState["question"]
    documents,               \* GraphState["documents"]
    online_search,           \* GraphState["online_search"]
    search_method,           \* GraphState["search_method"]
    document_evaluations,    \* GraphState["document_evaluations"]
    solution,                \* GraphState["solution"]
    retry_count,             \* GraphState["retry_count"]
    no_documents_available,  \* GraphState["no_documents_available"]
    retry_limit_reached,     \* GraphState["retry_limit_reached"]
    retrieved,               \* what the retriever returned in this run
    retrieverCalls,          \* retriever invocations of this interaction
    judgeLog,                \* evaluate_docs.invoke calls of this interaction
    genCalls,                \* Generate Answer executions of this interaction
    attempts,                \* those of them that returned
    lastGen,                 \* the latest of them: path taken, model call made
    verdictLog,              \* hallucination-check verdicts of this interaction
    firstFallback,           \* the session's first fallback answer: [run, question, text]
    runs,                    \* interactions handled so far
    epc,                     \* position of the evaluation coordinator
    button,                  \* runner_config: the button that started the evaluation
    max_questions,           \* settings['max_questions']
    questions,               \* the evaluation subset of this run
    qidx,                    \* questions of it handled so far
    ragas_results,           \* run_ragas_evaluation: results
    qa_pairs,                \* run_giskard_evaluation: qa_pairs
    giskard_results,         \* run_giskard_evaluation: its return value
    evaluation_results,      \* st.session_state.evaluation_results
    workflowLog,             \* rag_system_func calls of this evaluation: <<engine, question id>>
    response_times,          \* run_giskard_evaluation: response_times
    giskardCall,             \* the arguments evaluate_comprehensive was invoked with
    op,                      \* the scoring function applied last
    args,                    \* its arguments
    ret,                     \* what it returned
    bhc_questions,           \* bhc_dataset.questions
    processed_file,          \* st.session_state.processed_file
    retriever,               \* st.session_state.retriever
    local_file_processed,    \* st.session_state.local_file_processed
    wf_retriever,            \* rag_workflow.retriever
    wf_key,                  \* rag_workflow._current_session_retriever_key
    dcall                    \* the document-processor call that has not returned yet

workflowVars == <<pc, via, submitted, asked, uiWarning, question, documents, online_search,
          search_method, document_evaluations, solution, retry_count,
          no_documents_available, retry_limit_reached, retrieved,
          retrieverCalls, judgeLog, genCalls, attempts, lastGen, verdictLog,
          firstFallback, runs>>

evalVars == <<epc, button, max_questions, questions, qidx, ragas_results, qa_pairs,
              giskard_results, evaluation_results, workflowLog, response_times,
              giskardCall>>

scoreVars == <<op, args, ret>>

dataVars == <<bhc_questions>>

sessionVars == <<processed_file, retriever, local_file_processed>>

handleVars == <<wf_retriever, wf_key>>

docVars == <<sessionVars, handleVars, dcall>>

vars == <<workflowVars, evalVars, scoreVars, dataVars, docVars>>

graphState == <<question, documents, online_search, search_method,
                document_evaluations, solution, retry_count,
                no_documents_available, retry_limit_reached>>

-----------------------------------------------------------------------------
(* Bounds of the model *)

MaxQLen == 1        \* longest question typed into the text box
MaxDocs == 2        \* most passages one retrieval returns
MaxRuns == 2        \* interactions in one session

(* The retry ceiling of the hallucination loop *)
MaxRetries == 3

-----------------------------------------------------------------------------
(* Values *)

NONE == <<>>                 \* a key that the state dict does not hold
Some(v) == <<v>>             \* a key that holds v
RAISE == <<"raise">>         \* a call that raises instead of returning
Ok(v) == <<"ok", v>>         \* a call that returns v

Chars == {"a", " "}
Passages == {"p1", "p2"}
Scores == {"yes", "Yes", "no"}
LLMAnswers == {<<"answer1">>, <<"answer2">>}

SeqsUpTo(S, n) == UNION {[1..k -> S] : k \in 0..n}

\* a list built element by element, as a tuple
List(f) == f \o <<>>

TypedQuestions == SeqsUpTo(Chars, MaxQLen)
Retrievals == SeqsUpTo(Passages, MaxDocs)

\* what evaluate_docs.invoke and generate_chain.invoke can do
JudgeOutcomes == {Ok(s) : s \in Scores} \cup {RAISE}
LLMOutcomes == {Ok(a) : a \in LLMAnswers} \cup {RAISE}

-----------------------------------------------------------------------------
(* The evaluation catalog: BHCDataset._create_dataset *)

\* DifficultyLevel
BASIC == "basico"
INTERMEDIATE == "intermediario"
ADVANCED == "avancado"
DifficultyLevel == <<BASIC, INTERMEDIATE, ADVANCED>>

\* QuestionCategory
BASIC_CONCEPTS == "conceitos_basicos"
METHODOLOGY == "metodologia"
CALCULATIONS == "calculos"
INDICES == "indices"
APPLICATIONS == "aplicacoes"
QuestionCategory == <<BASIC_CONCEPTS, METHODOLOGY, CALCULATIONS, INDICES, APPLICATIONS>>

\* the difficulty of the questions with id 1..10, in catalog order
Difficulties ==
    <<BASIC, INTERMEDIATE, INTERMEDIATE, INTERMEDIATE, INTERMEDIATE,
      BASIC, ADVANCED, ADVANCED, BASIC, INTERMEDIATE>>

\* their category
Categories ==
    <<BASIC_CONCEPTS, CALCULATIONS, METHODOLOGY, METHODOLOGY, BASIC_CONCEPTS,
      BASIC_CONCEPTS, INDICES, INDICES, APPLICATIONS, APPLICATIONS>>

\* variant: the last entry repeats the id of the first one
Catalog_RepeatedId ==
    List([i \in DOMAIN Difficulties |->
        [id |-> IF i = Len(Difficulties) THEN 1 ELSE i,
         difficulty |-> Difficulties[i], category |-> Categories[i]]])

\* the list _create_dataset returns
Catalog ==
    List([i \in DOMAIN Difficulties |->
        [id |-> i, difficulty |-> Difficulties[i], category |-> Categories[i]]])

-----------------------------------------------------------------------------
(* String functions *)

IsSpace(c) == c = " "

RECURSIVE LStrip(_)
LStrip(s) ==
    IF s = <<>> THEN <<>>
    ELSE IF IsSpace(Head(s)) THEN LStrip(Tail(s)) ELSE s

RECURSIVE RStrip(_)
RStrip(s) ==
    IF s = <<>> THEN <<>>
    ELSE IF IsSpace(s[Len(s)]) THEN RStrip(SubSeq(s, 1, Len(s) - 1)) ELSE s

\* str.strip()
Strip(s) == RStrip(LStrip(s))

\* str.replace(" ", "")
RECURSIVE RemoveSpaces(_)
RemoveSpaces(s) ==
    IF s = <<>> THEN <<>>
    ELSE IF IsSpace(Head(s)) THEN RemoveSpaces(Tail(s))
         ELSE <<Head(s)>> \o RemoveSpaces(Tail(s))

\* str.lower() on the grader's score
Lower(s) ==
    CASE s = "Yes" -> "yes"
      [] s = "YES" -> "yes"
      [] s = "No"  -> "no"
      [] s = "NO"  -> "no"
      [] OTHER     -> s

\* dict.get(key, default)
StateGet(v, default) == IF v = NONE THEN default ELSE v[1]

-----------------------------------------------------------------------------
(* The fallback template: fixed text, the question, fixed text *)

FallbackHead == <<"Desculpe, ... para responder a sua pergunta: \"">>
FallbackTail == <<"\". Os documentos disponiveis ... para sua consulta?">>

generate_fallback_response(q) == FallbackHead \o q \o FallbackTail

-----------------------------------------------------------------------------
(* Graph wiring: RAGWorkflow._create_graph *)

NodeRetrieve == "Retrieve Documents"
NodeGrade    == "Grade Documents"
NodeGenerate == "Generate Answer"
CheckHalluc  == "Check Hallucinations"   \* the conditional edge out of Generate Answer
END          == "END"
Failed       == "failed"                 \* an exception left graph.invoke
Rejected     == "ValidationError"        \* process_question refused the question
Idle         == "idle"

Finished == {END, Failed, Rejected}      \* process_question has returned or raised

HallucinationsDetected == "Hallucinations detected"
AnswersQuestion        == "Answers Question"
QuestionNotAddressed   == "Question not addressed"
Verdicts == {HallucinationsDetected, AnswersQuestion, QuestionNotAddressed}

\* workflow.set_entry_point
EntryPoint == NodeRetrieve

\* workflow.add_edge("Retrieve Documents", "Grade Documents")
RetrieveEdge == NodeGrade

\* _any_doc_irrelevant: the routing key after grading, whatever the state
any_doc_irrelevant(state) == "Generate Answer"

\* variant: grading ends the run
GradeEdges_End(key) == CASE key = "Generate Answer" -> END

\* the mapping of the conditional edge out of Grade Documents
GradeEdges(key) == CASE key = "Generate Answer" -> NodeGenerate

\* variant: a detected hallucination ends the run instead of regenerating
HallucinationEdges_NoLoop(key) ==
    CASE key = "Hallucinations detected" -> END
      [] key = "Answers Question"        -> END
      [] key = "Question not addressed"  -> END

\* variant: an unaddressed question is regenerated as well
HallucinationEdges_LoopUnaddressed(key) ==
    CASE key = "Hallucinations detected" -> NodeGenerate
      [] key = "Answers Question"        -> END
      [] key = "Question not addressed"  -> NodeGenerate

\* the mapping of the conditional edge out of Generate Answer.  The extra
\* add_edge("Generate Answer", END) schedules no node: END is not a node.
HallucinationEdges(key) ==
    CASE key = "Hallucinations detected" -> NodeGenerate
      [] key = "Answers Question"        -> END
      [] key = "Question not addressed"  -> END

-----------------------------------------------------------------------------
(* Grade Documents: RAGWorkflow._evaluate *)

\* result.lower() == "yes"
IsRelevant(result) == Lower(result) = "yes"

\* "online" if online_search else "documents"
SearchMethodOf(online) == IF online THEN "online" ELSE "documents"

\* variant: an irrelevant passage does not raise the online_search flag
GradeStep_NoFlag(acc, q, document, response) ==
    [filtered |-> IF IsRelevant(response)
                  THEN Append(acc.filtered, document) ELSE acc.filtered,
     evals    |-> Append(acc.evals, response),
     online   |-> acc.online,
     log      |-> Append(acc.log, [question |-> q, document |-> document,
                                   response |-> Ok(response)]),
     raised   |-> FALSE]

\* variant: a relevant passage is put in front of the kept ones
GradeStep_Prepend(acc, q, document, response) ==
    [filtered |-> IF IsRelevant(response)
                  THEN <<document>> \o acc.filtered ELSE acc.filtered,
     evals    |-> Append(acc.evals, response),
     online   |-> IF IsRelevant(response) THEN acc.online ELSE TRUE,
     log      |-> Append(acc.log, [question |-> q, document |-> document,
                                   response |-> Ok(response)]),
     raised   |-> FALSE]

\* one iteration of the loop over the documents, for a call that returned
GradeStep(acc, q, document, response) ==
    [filtered |-> IF IsRelevant(response)
                  THEN Append(acc.filtered, document) ELSE acc.filtered,
     evals    |-> Append(acc.evals, response),
     online   |-> IF IsRelevant(response) THEN acc.online ELSE TRUE,
     log      |-> Append(acc.log, [question |-> q, document |-> document,
                                   response |-> Ok(response)]),
     raised   |-> FALSE]

\* variant: a failed grading call is caught, the passage counts as irrelevant
RECURSIVE GradeLoop_Swallow(_, _, _, _, _)
GradeLoop_Swallow(acc, q, docs, responses, i) ==
    IF i > Len(docs) THEN acc
    ELSE IF responses[i] = RAISE
         THEN GradeLoop_Swallow(
                  [acc EXCEPT !.log = Append(@, [question |-> q,
                                                 document |-> docs[i],
                                                 response |-> RAISE]),
                              !.online = TRUE],
                  q, docs, responses, i + 1)
         ELSE GradeLoop_Swallow(GradeStep(acc, q, docs[i], responses[i][2]),
                                q, docs, responses, i + 1)

\* the loop; responses[i] is what evaluate_docs.invoke does on the i-th call
RECURSIVE GradeLoop(_, _, _, _, _)
GradeLoop(acc, q, docs, responses, i) ==
    IF i > Len(docs) THEN acc
    ELSE IF responses[i] = RAISE
         THEN [acc EXCEPT !.log = Append(@, [question |-> q,
                                              document |-> docs[i],
                                              response |-> RAISE]),
                          !.raised = TRUE]
         ELSE GradeLoop(GradeStep(acc, q, docs[i], responses[i][2]),
                        q, docs, responses, i + 1)

\* variant: the loop starts with the flag lowered, whatever the state holds
evaluate_FreshFlag(q, docs, online, responses) ==
    GradeLoop([filtered |-> <<>>, evals |-> <<>>, online |-> FALSE,
               log |-> <<>>, raised |-> FALSE], q, docs, responses, 1)

evaluate(q, docs, online, responses) ==
    GradeLoop([filtered |-> <<>>, evals |-> <<>>, online |-> online,
               log |-> <<>>, raised |-> FALSE], q, docs, responses, 1)

\* the dict _evaluate returns, without the question it passes on
evaluate_return(r) ==
    [documents            |-> r.filtered,
     online_search        |-> r.online,
     search_method        |-> SearchMethodOf(r.online),
     document_evaluations |-> r.evals]

-----------------------------------------------------------------------------
(* Generate Answer: RAGWorkflow._generate_answer *)

\* variant: the model is called whatever the passage list
UseFallback_Never(docs) == FALSE

\* variant: a single passage counts as none
UseFallback_AtMostOne(docs) == Len(docs) <= 1

\* len(documents) == 0
UseFallback(docs) == Len(docs) = 0

\* variant: the counter is written back without the increment past the first attempt
NextRetryCount_Stuck(rc) == IF rc = 0 THEN 1 ELSE rc

\* "retry_count": retry_count + 1
NextRetryCount(rc) == rc + 1

-----------------------------------------------------------------------------
(* Hallucination check: RAGWorkflow._check_hallucinations *)

\* the retry ceiling is breached once more than MaxRetries regenerations
\* would be needed
Exhausted(verdict, rc) == verdict = HallucinationsDetected /\ rc > MaxRetries

Route(verdict, rc) == IF Exhausted(verdict, rc) THEN END ELSE HallucinationEdges(verdict)

-----------------------------------------------------------------------------
(* Call sites *)

\* variant: the text is tested without strip()
ShouldProcess_NoStrip(ask_button, q) == ask_button /\ q # <<>>

\* app.handle_user_interaction: if ask_button and question.strip()
ShouldProcess(ask_button, q) == ask_button /\ Strip(q) # <<>>

\* app.handle_user_interaction: elif ask_button and not question.strip()
ShouldWarn(ask_button, q) == ask_button /\ Strip(q) = <<>>

\* GiskardEvaluator._generate_edge_cases
generate_edge_cases(q) ==
    << <<>>, <<"?">>, q \o q \o q, q \o <<" ">> \o q, RemoveSpaces(q) >>

\* GiskardEvaluator.evaluate_robustness: if not variant.strip(): continue
SkipVariant(variant) == Strip(variant) = <<>>

\* a question of the evaluation dataset
OriginalQuestions == {<<"a">>}

-----------------------------------------------------------------------------
(* State after construction: RAGWorkflow() built, no question asked yet *)

NoGen == [path |-> "none", context |-> NONE, question |-> NONE, out |-> NONE]

AbsentState ==
    /\ question = NONE
    /\ documents = NONE
    /\ online_search = NONE
    /\ search_method = NONE
    /\ document_evaluations = NONE
    /\ solution = NONE
    /\ retry_count = NONE
    /\ no_documents_available = NONE
    /\ retry_limit_reached = NONE

\* EvaluationCoordinator._initialize_session_state
initialize_session_state ==
    [ragas_results |-> NONE, giskard_results |-> NONE,
     last_evaluation_time |-> NONE, evaluation_settings |-> NONE]

Init ==
    /\ pc = Idle
    /\ via = "none"
    /\ submitted = NONE
    /\ asked = FALSE
    /\ uiWarning = FALSE
    /\ AbsentState
    /\ retrieved = NONE
    /\ retrieverCalls = 0
    /\ judgeLog = <<>>
    /\ genCalls = 0
    /\ attempts = 0
    /\ lastGen = NoGen
    /\ verdictLog = <<>>
    /\ firstFallback = NONE
    /\ runs = 0
    /\ epc = "idle"
    /\ button = "none"
    /\ max_questions = NONE
    /\ questions = <<>>
    /\ qidx = 0
    /\ ragas_results = <<>>
    /\ qa_pairs = <<>>
    /\ giskard_results = NONE
    /\ evaluation_results = initialize_session_state
    /\ workflowLog = <<>>
    /\ response_times = <<>>
    /\ giskardCall = NONE
    /\ op = "none"
    /\ args = NONE
    /\ ret = NONE
    /\ bhc_questions = Catalog
    /\ processed_file = NONE
    /\ retriever = NONE
    /\ local_file_processed = FALSE
    /\ wf_retriever = NONE
    /\ wf_key = NONE
    /\ dcall = NONE

\* a new interaction: the call counters of the stubs start from zero; the
\* first fallback answer of the session is kept, to compare later runs with it
BeginInteraction(site, q) ==
    /\ pc = Idle
    /\ runs < MaxRuns
    /\ runs' = runs + 1
    /\ via' = site
    /\ submitted' = Some(q)
    /\ retrieved' = NONE
    /\ retrieverCalls' = 0
    /\ judgeLog' = <<>>
    /\ genCalls' = 0
    /\ attempts' = 0
    /\ lastGen' = NoGen
    /\ verdictLog' = <<>>
    /\ UNCHANGED firstFallback
    /\ UNCHANGED <<evalVars, scoreVars, dataVars, docVars>>

\* the graph state a run starts from
FreshState(q) ==
    /\ question' = Some(q)
    /\ documents' = NONE
    /\ online_search' = NONE
    /\ search_method' = NONE
    /\ document_evaluations' = NONE
    /\ solution' = NONE
    /\ retry_count' = NONE
    /\ no_documents_available' = NONE
    /\ retry_limit_reached' = NONE

\* nothing of a previous result is kept
NoState ==
    /\ question' = NONE
    /\ documents' = NONE
    /\ online_search' = NONE
    /\ search_method' = NONE
    /\ document_evaluations' = NONE
    /\ solution' = NONE
    /\ retry_count' = NONE
    /\ no_documents_available' = NONE
    /\ retry_limit_reached' = NONE

\* no run
NoRun == pc' = Idle /\ NoState

\* RAGWorkflow.process_question: validation, then graph.invoke from the entry point
process_question(q) ==
    IF Strip(q) = <<>>
    THEN /\ pc' = Rejected
         /\ NoState
    ELSE /\ pc' = EntryPoint
         /\ FreshState(q)

\* app.handle_user_interaction
HandleUserInteraction ==
    \E q \in TypedQuestions, ask_button \in BOOLEAN :
        /\ BeginInteraction("ui", q)
        /\ asked' = ask_button
        /\ IF ShouldProcess(ask_button, q)
           THEN /\ process_question(q)
                /\ uiWarning' = FALSE
           ELSE IF ShouldWarn(ask_button, q)
           THEN /\ NoRun
                /\ uiWarning' = TRUE
           ELSE /\ NoRun
                /\ uiWarning' = FALSE

\* GiskardEvaluator.evaluate_robustness: one variant of the edge-case generator
RobustnessVariant ==
    \E q \in OriginalQuestions :
      \E k \in DOMAIN generate_edge_cases(q) :
        LET variant == generate_edge_cases(q)[k] IN
        /\ BeginInteraction("robustness", variant)
        /\ asked' = TRUE
        /\ uiWarning' = FALSE
        /\ IF SkipVariant(variant)
           THEN NoRun
           ELSE process_question(variant)

\* RAGWorkflow._retrieve
Retrieve ==
    /\ pc = NodeRetrieve
    /\ retrieverCalls' = retrieverCalls + 1
    /\ \E r \in {Ok(d) : d \in Retrievals} \cup {RAISE} :
        IF r = RAISE
        THEN /\ pc' = Failed
             /\ UNCHANGED <<graphState, retrieved>>
        ELSE /\ pc' = RetrieveEdge
             /\ documents' = Some(r[2])
             /\ retrieved' = Some(r[2])
             /\ UNCHANGED <<question, online_search, search_method,
                            document_evaluations, solution, retry_count,
                            no_documents_available, retry_limit_reached>>
    /\ UNCHANGED <<via, submitted, asked, uiWarning, judgeLog, genCalls, attempts,
                   lastGen, verdictLog, firstFallback, runs>>
    /\ UNCHANGED <<evalVars, scoreVars, dataVars, docVars>>

\* RAGWorkflow._evaluate, then the conditional edge _any_doc_irrelevant
Evaluate ==
    /\ pc = NodeGrade
    /\ \E responses \in [1..Len(documents[1]) -> JudgeOutcomes] :
        LET r == evaluate(question[1], documents[1],
                          StateGet(online_search, FALSE), responses) IN
        /\ judgeLog' = r.log
        /\ IF r.raised
           THEN /\ pc' = Failed
                /\ UNCHANGED graphState
           ELSE /\ pc' = GradeEdges(any_doc_irrelevant(graphState))
                /\ documents' = Some(evaluate_return(r).documents)
                /\ question' = question
                /\ online_search' = Some(evaluate_return(r).online_search)
                /\ search_method' = Some(evaluate_return(r).search_method)
                /\ document_evaluations' = Some(evaluate_return(r).document_evaluations)
                /\ UNCHANGED <<solution, retry_count, no_documents_available,
                               retry_limit_reached>>
    /\ UNCHANGED <<via, submitted, asked, uiWarning, retrieved, retrieverCalls,
                   genCalls, attempts, lastGen, verdictLog, firstFallback, runs>>
    /\ UNCHANGED <<evalVars, scoreVars, dataVars, docVars>>

\* variant: the passages are dropped once an answer has been generated
generate_answer_documents_Used(docs) == <<>>

\* the "documents" entry of the dict _generate_answer returns
generate_answer_documents(docs) == docs

\* RAGWorkflow._generate_answer
GenerateAnswer ==
    /\ pc = NodeGenerate
    /\ genCalls' = genCalls + 1
    /\ LET rc == StateGet(retry_count, 0) IN
       IF UseFallback(documents[1])
       THEN LET text == generate_fallback_response(question[1]) IN
            /\ solution' = Some(text)
            /\ retry_count' = Some(NextRetryCount(rc))
            /\ no_documents_available' = Some(TRUE)
            /\ lastGen' = [path |-> "fallback", context |-> NONE,
                           question |-> NONE, out |-> NONE]
            /\ attempts' = attempts + 1
            /\ firstFallback' =
                   IF firstFallback = NONE
                   THEN Some([run |-> runs, question |-> question[1], text |-> text])
                   ELSE firstFallback
            /\ pc' = CheckHalluc
       ELSE \E out \in LLMOutcomes :
            /\ lastGen' = [path |-> "model", context |-> documents,
                           question |-> question, out |-> out]
            /\ UNCHANGED firstFallback
            /\ IF out = RAISE
               THEN /\ pc' = Failed
                    /\ UNCHANGED <<solution, retry_count, no_documents_available,
                                   attempts>>
               ELSE /\ pc' = CheckHalluc
                    /\ solution' = Some(out[2])
                    /\ retry_count' = Some(NextRetryCount(rc))
                    /\ attempts' = attempts + 1
                    /\ UNCHANGED no_documents_available
    /\ documents' = Some(generate_answer_documents(documents[1]))
    /\ question' = question
    /\ UNCHANGED <<online_search, search_method, document_evaluations,
                   retry_limit_reached>>
    /\ UNCHANGED <<via, submitted, asked, uiWarning, retrieved, retrieverCalls,
                   judgeLog, verdictLog, runs>>
    /\ UNCHANGED <<evalVars, scoreVars, dataVars, docVars>>

\* RAGWorkflow._check_hallucinations, then the conditional edge out of Generate Answer
CheckHallucinations ==
    /\ pc = CheckHalluc
    /\ \E verdict \in Verdicts :
        /\ verdictLog' = Append(verdictLog, verdict)
        /\ pc' = Route(verdict, StateGet(retry_count, 0))
        /\ retry_limit_reached' =
               IF Exhausted(verdict, StateGet(retry_count, 0))
               THEN Some(TRUE) ELSE retry_limit_reached
    /\ UNCHANGED <<question, documents, online_search, search_method,
                   document_evaluations, solution, retry_count,
                   no_documents_available>>
    /\ UNCHANGED <<via, submitted, asked, uiWarning, retrieved, retrieverCalls,
                   judgeLog, genCalls, attempts, lastGen, firstFallback, runs>>
    /\ UNCHANGED <<evalVars, scoreVars, dataVars, docVars>>

\* the call site is done with the result (app.handle_question_processing
\* renders it, evaluate_robustness scores it); nothing of the run is kept
FinishInteraction ==
    /\ pc \in Finished
    /\ NoRun
    /\ via' = "none"
    /\ submitted' = NONE
    /\ asked' = FALSE
    /\ uiWarning' = FALSE
    /\ retrieved' = NONE
    /\ retrieverCalls' = 0
    /\ judgeLog' = <<>>
    /\ genCalls' = 0
    /\ attempts' = 0
    /\ lastGen' = NoGen
    /\ verdictLog' = <<>>
    /\ UNCHANGED <<firstFallback, runs>>
    /\ UNCHANGED <<evalVars, scoreVars, dataVars, docVars>>

\* the graph executor runs every node it has scheduled
GraphStep == Retrieve \/ Evaluate \/ GenerateAnswer \/ CheckHallucinations

\* a session: up to MaxRuns interactions, one after the other
Next ==
    \/ HandleUserInteraction
    \/ RobustnessVariant
    \/ GraphStep
    \/ FinishInteraction

Spec == Init /\ [][Next]_vars

\* one interaction, from the click to the end of its run
RunNext ==
    \/ runs = 0 /\ HandleUserInteraction
    \/ runs = 0 /\ RobustnessVariant
    \/ GraphStep
    \/ FinishInteraction

RunSpec == Init /\ [][RunNext]_vars /\ WF_vars(GraphStep)

-----------------------------------------------------------------------------
(* Scores: fractions n/d in lowest terms, written <<n, d>> with d > 0 *)

Grid == 2           \* a judge answers with a score k/Grid, k in 0..Grid

Abs(n) == IF n < 0 THEN 0 - n ELSE n

RECURSIVE GCD(_, _)
GCD(a, b) == IF b = 0 THEN a ELSE GCD(b, a % b)

Rat(n, d) ==
    LET num == n
        den == d
        g == GCD(Abs(num), den)
    IN <<num \div g, den \div g>>

Zero == Rat(0, 1)
One == Rat(1, 1)
Half == Rat(1, 2)

RAdd(x, y) == LET a == x  b == y IN Rat(a[1] * b[2] + b[1] * a[2], a[2] * b[2])
RSub(x, y) == LET a == x  b == y IN Rat(a[1] * b[2] - b[1] * a[2], a[2] * b[2])
RMul(x, y) == LET a == x  b == y IN Rat(a[1] * b[1], a[2] * b[2])
RDiv(x, k) == LET a == x IN Rat(a[1], a[2] * k)
RLess(x, y) == LET a == x  b == y IN a[1] * b[2] < b[1] * a[2]
RLeq(x, y) == LET a == x  b == y IN a[1] * b[2] <= b[1] * a[2]
RMax(x, y) == LET a == x  b == y IN IF RLess(a, b) THEN b ELSE a

RECURSIVE SumInt(_)
SumInt(s) == IF s = <<>> THEN 0 ELSE Head(s) + SumInt(Tail(s))

RECURSIVE MaxInt(_)
MaxInt(s) ==
    IF Len(s) = 1 THEN Head(s)
    ELSE LET m == MaxInt(Tail(s)) IN IF Head(s) > m THEN Head(s) ELSE m

RECURSIVE RSum(_)
RSum(s) == IF s = <<>> THEN Zero ELSE RAdd(Head(s), RSum(Tail(s)))

\* np.mean of a non-empty list
np_mean(s) == RDiv(RSum(s), Len(s))

\* Field(ge=0.0, le=1.0)
InUnit(x) == RLeq(Zero, x) /\ RLeq(x, One)

\* a structured judge call returns a score of the schema, or raises
GridScores == {Rat(k, Grid) : k \in 0..Grid}
ScoreOutcomes == {Ok(s) : s \in GridScores} \cup {RAISE}

-----------------------------------------------------------------------------
(* RAGAS: RAGASEvaluator *)

\* the except branch of evaluate_single_qa
RagasErrorResult ==
    [faithfulness |-> Zero, answer_relevancy |-> Zero, context_precision |-> Zero,
     context_recall |-> Zero, overall_score |-> Zero, details |-> "error"]

\* variant: the four dimensions weigh the same
overall_score_Equal(f, r, p, c) ==
    RAdd(RAdd(RAdd(RMul(f, Rat(1, 4)), RMul(r, Rat(1, 4))), RMul(p, Rat(1, 4))),
         RMul(c, Rat(1, 4)))

\* overall_score = f * 0.3 + r * 0.3 + p * 0.2 + c * 0.2
overall_score(f, r, p, c) ==
    RAdd(RAdd(RAdd(RMul(f, Rat(3, 10)), RMul(r, Rat(3, 10))), RMul(p, Rat(2, 10))),
         RMul(c, Rat(2, 10)))

\* variant: a failed evaluation is scored 0.5 in every field
evaluate_single_qa_Neutral(judge) ==
    IF \E i \in 1..4 : judge[i] = RAISE
    THEN [faithfulness |-> Half, answer_relevancy |-> Half, context_precision |-> Half,
          context_recall |-> Half, overall_score |-> Half, details |-> "error"]
    ELSE [faithfulness |-> judge[1][2], answer_relevancy |-> judge[2][2],
          context_precision |-> judge[3][2], context_recall |-> judge[4][2],
          overall_score |-> overall_score(judge[1][2], judge[2][2],
                                          judge[3][2], judge[4][2]),
          details |-> "scored"]

\* RAGASEvaluator.evaluate_single_qa; judge: what the faithfulness, relevancy,
\* precision and recall calls do, in the order they are made
evaluate_single_qa(judge) ==
    IF \E i \in 1..4 : judge[i] = RAISE
    THEN RagasErrorResult
    ELSE [faithfulness |-> judge[1][2], answer_relevancy |-> judge[2][2],
          context_precision |-> judge[3][2], context_recall |-> judge[4][2],
          overall_score |-> overall_score(judge[1][2], judge[2][2],
                                          judge[3][2], judge[4][2]),
          details |-> "scored"]

Column(results, field) == List([i \in DOMAIN results |-> results[i][field]])

\* RAGASEvaluator.get_aggregate_metrics (the averages)
get_aggregate_metrics(results) ==
    IF results = <<>>
    THEN NONE
    ELSE Some([avg_faithfulness |-> np_mean(Column(results, "faithfulness")),
               avg_answer_relevancy |-> np_mean(Column(results, "answer_relevancy")),
               avg_context_precision |-> np_mean(Column(results, "context_precision")),
               avg_context_recall |-> np_mean(Column(results, "context_recall")),
               avg_overall_score |-> np_mean(Column(results, "overall_score"))])

-----------------------------------------------------------------------------
(* The evaluation dataset: BHCDataset *)

\* list[:n], n >= 0
Take(s, n) == SubSeq(s, 1, IF n < Len(s) THEN n ELSE Len(s))

RECURSIVE Filter(_, _)
Filter(s, d) ==
    IF s = <<>> THEN <<>>
    ELSE IF Head(s).difficulty = d THEN <<Head(s)>> \o Filter(Tail(s), d)
         ELSE Filter(Tail(s), d)

\* BHCDataset.get_questions_by_difficulty
get_questions_by_difficulty(d) == Filter(Catalog, d)

\* variant: the selected questions are returned in catalog order
get_evaluation_subset_CatalogOrder(n) ==
    LET chosen == {q.id : q \in {get_questions_by_difficulty(BASIC)[1],
                                 get_questions_by_difficulty(BASIC)[2],
                                 get_questions_by_difficulty(INTERMEDIATE)[1],
                                 get_questions_by_difficulty(INTERMEDIATE)[2],
                                 get_questions_by_difficulty(ADVANCED)[1]}}
        RECURSIVE Pick(_)
        Pick(s) == IF s = <<>> THEN <<>>
                   ELSE IF Head(s).id \in chosen THEN <<Head(s)>> \o Pick(Tail(s))
                        ELSE Pick(Tail(s))
    IN Take(Pick(Catalog), n)

\* variant: the questions of each difficulty are taken whole
get_evaluation_subset_Uncapped(n) ==
    Take(get_questions_by_difficulty(BASIC) \o get_questions_by_difficulty(INTERMEDIATE)
             \o get_questions_by_difficulty(ADVANCED), n)

\* BHCDataset.get_evaluation_subset
get_evaluation_subset(n) ==
    LET basic_questions == Take(get_questions_by_difficulty(BASIC), 2)
        intermediate_questions == Take(get_questions_by_difficulty(INTERMEDIATE), 2)
        advanced_questions == Take(get_questions_by_difficulty(ADVANCED), 1)
        subset == basic_questions \o intermediate_questions \o advanced_questions
    IN Take(subset, n)

\* BHCDataset.get_all_questions
get_all_questions == Catalog

\* BHCDataset.get_questions_by_category
get_questions_by_category(category) ==
    LET Has(q) == q.category = category IN SelectSeq(Catalog, Has)

\* BHCDataset.get_question_by_id: the first question with the id, or ValueError
get_question_by_id(question_id) ==
    LET Has(q) == q.id = question_id IN
    IF SelectSeq(Catalog, Has) = <<>> THEN RAISE ELSE Ok(Head(SelectSeq(Catalog, Has)))

\* BHCDataset.to_dict_format: one dict for a question, the enums by their value
to_dict_format ==
    List([i \in DOMAIN Catalog |->
        [id |-> Catalog[i].id, category |-> Catalog[i].category,
         difficulty |-> Catalog[i].difficulty]])

\* len(q.keywords), question by question
KeywordCounts == <<5, 5, 5, 5, 5, 4, 7, 5, 5, 5>>

\* BHCDataset.get_statistics: the counts
get_statistics ==
    [total_questions |-> Len(Catalog),
     categories |-> [c \in {QuestionCategory[i] : i \in DOMAIN QuestionCategory} |->
                        Len(get_questions_by_category(c))],
     difficulty_levels |-> [d \in {DifficultyLevel[i] : i \in DOMAIN DifficultyLevel} |->
                               Len(get_questions_by_difficulty(d))],
     total_keywords |-> SumInt(KeywordCounts)]

\* the question texts, abridged to the words the variant generators look for
\* (of the words of their tables the texts keep "balanço" and "hídrico"), the
\* bracketed abbreviation and the question mark
question_text(id) ==
    CASE id = 1 -> <<"O", " ", "Balanço", " ", "Hídrico", " ", "(", "BHC", ")", "?">>
      [] id \in {5, 6} -> <<"O", " ", "Hídrico", " ", "(", "BHC", ")", "?">>
      [] id \in {3, 4, 8} -> <<"O", " ", "o", " ", "(", "BHC", ")", "?">>
      [] OTHER -> <<"O", " ", "o", "?">>

-----------------------------------------------------------------------------
(* Text functions of the variant generators; a text is a sequence of words,
   blanks and punctuation marks *)

\* str.lower(), word by word
LowerWord(w) ==
    CASE w \in {"O", "o"} -> "o"
      [] w \in {"Balanço", "BALANÇO"} -> "balanço"
      [] w \in {"Hídrico", "HÍDRICO"} -> "hídrico"
      [] w \in {"BHC", "Bhc"} -> "bhc"
      [] w \in {"Brasil", "BRASIL"} -> "brasil"
      [] OTHER -> w

\* str.upper(), word by word
UpperWord(w) ==
    CASE w \in {"O", "o"} -> "O"
      [] w \in {"Balanço", "balanço"} -> "BALANÇO"
      [] w \in {"Hídrico", "hídrico"} -> "HÍDRICO"
      [] w \in {"BHC", "bhc"} -> "BHC"
      [] w \in {"Brasil", "brasil"} -> "BRASIL"
      [] OTHER -> w

\* the first letter in upper case
CapitalWord(w) ==
    CASE w = "o" -> "O"
      [] w = "balanço" -> "Balanço"
      [] w = "hídrico" -> "Hídrico"
      [] w = "bhc" -> "Bhc"
      [] w = "brasil" -> "Brasil"
      [] OTHER -> w

LowerText(t) == List([i \in DOMAIN t |-> LowerWord(t[i])])
UpperText(t) == List([i \in DOMAIN t |-> UpperWord(t[i])])

\* str.capitalize()
Capitalize(t) ==
    IF t = <<>> THEN <<>>
    ELSE <<CapitalWord(LowerWord(Head(t)))>> \o LowerText(Tail(t))

\* str.replace(old, new) for one word or mark
RECURSIVE Replace(_, _, _)
Replace(t, old, new) ==
    IF t = <<>> THEN <<>>
    ELSE (IF Head(t) = old THEN new ELSE <<Head(t)>>) \o Replace(Tail(t), old, new)

\* correct in text
HasWord(t, w) == \E i \in DOMAIN t : t[i] = w

\* "balanço hídrico" in text
ContainsPhrase(t, p) ==
    \E i \in 1..(Len(t) - Len(p) + 1) : SubSeq(t, i, i + Len(p) - 1) = p

RECURSIVE ReplacePhrase(_, _, _)
ReplacePhrase(t, p, new) ==
    IF Len(t) < Len(p) THEN t
    ELSE IF SubSeq(t, 1, Len(p)) = p
         THEN new \o ReplacePhrase(SubSeq(t, Len(p) + 1, Len(t)), p, new)
         ELSE <<Head(t)>> \o ReplacePhrase(Tail(t), p, new)

\* re.sub(r'\(.*?\)', '', text)
RECURSIVE DropBracketed(_)
DropBracketed(t) ==
    IF t = <<>> THEN <<>>
    ELSE IF Head(t) = "(" /\ HasWord(Tail(t), ")")
         THEN LET close == CHOOSE i \in DOMAIN t :
                               /\ i > 1 /\ t[i] = ")"
                               /\ \A j \in 2..(i - 1) : t[j] # ")"
              IN DropBracketed(SubSeq(t, close + 1, Len(t)))
         ELSE <<Head(t)>> \o DropBracketed(Tail(t))

\* re.sub(r'\s+', ' ', text)
RECURSIVE SqueezeSpaces(_)
SqueezeSpaces(t) ==
    IF t = <<>> THEN <<>>
    ELSE IF IsSpace(Head(t)) /\ Tail(t) # <<>> /\ IsSpace(Head(Tail(t)))
         THEN SqueezeSpaces(Tail(t))
         ELSE <<Head(t)>> \o SqueezeSpaces(Tail(t))

\* str.split(), as the set of words
Words(t) == {t[i] : i \in {j \in DOMAIN t : ~IsSpace(t[j])}}

\* of the words "balanço", "hídrico" and "bhc", those that stand in the
\* question, the keywords or the expected concepts, in lower case
SearchWords(id) ==
    CASE id = 1 -> {"balanço", "hídrico", "bhc"}
      [] id = 2 -> {"balanço", "bhc"}
      [] id \in {4, 10} -> {"bhc"}
      [] id \in {5, 6} -> {"hídrico"}
      [] id = 7 -> {"hídrico", "bhc"}
      [] OTHER -> {}

\* BHCDataset.search_questions, for a query of one word
search_questions(query) ==
    LET Matches(q) == LowerWord(query) \in SearchWords(q.id) IN SelectSeq(Catalog, Matches)

-----------------------------------------------------------------------------
(* GISKARD robustness: the variant generators of GiskardEvaluator *)

\* typo_map, the rows of the words the question texts keep
TypoMap ==
    << [correct |-> "balanço", typos |-> <<"balanco", "balansso">>],
       [correct |-> "hídrico", typos |-> <<"hidrico", "hidríco">>] >>

\* synonym_map, likewise
SynonymMap ==
    << [original |-> <<"balanço", " ", "hídrico">>, synonym |-> <<"cálculo de água">>] >>

\* _generate_typo_variants
generate_typo_variants(q) ==
    LET modified_question == LowerText(q)
        Row(r) == IF HasWord(modified_question, r.correct)
                  THEN List([i \in DOMAIN r.typos |->
                           Capitalize(Replace(modified_question, r.correct, <<r.typos[i]>>))])
                  ELSE <<>>
    IN Take(Row(TypoMap[1]) \o Row(TypoMap[2]), 3)

\* _generate_format_variants
generate_format_variants(q) ==
    << UpperText(q),
       LowerText(q),
       Replace(q, "?", <<>>),
       <<"Me explique: ">> \o LowerText(q),
       <<"Gostaria de saber ">> \o LowerText(q) >>

\* _generate_synonym_variants
generate_synonym_variants(q) ==
    LET r == SynonymMap[1] IN
    IF ContainsPhrase(LowerText(q), r.original)
    THEN << Capitalize(ReplacePhrase(LowerText(q), r.original, r.synonym)) >>
    ELSE <<>>

\* _generate_length_variants
generate_length_variants(q) ==
    << Strip(SqueezeSpaces(DropBracketed(q))),
       <<"Você poderia me explicar detalhadamente ">> \o LowerText(q)
           \o <<" ", "Preciso de uma resposta completa e técnica.">> >>

\* _generate_complexity_variants
generate_complexity_variants(q) ==
    << <<"De forma simples: ">> \o LowerText(q),
       <<"Tecnicamente falando: ">> \o LowerText(q),
       <<"Para um especialista: ">> \o LowerText(q) >>

\* _setup_test_cases: the generators, in the order of the dict
TestNames == <<"typos", "formatting", "synonyms", "length", "complexity", "edge_cases">>

robustness_tests(q) ==
    << generate_typo_variants(q), generate_format_variants(q),
       generate_synonym_variants(q), generate_length_variants(q),
       generate_complexity_variants(q), generate_edge_cases(q) >>

-----------------------------------------------------------------------------
(* The workflow under test, as the evaluators see it: rag_system_func *)

\* answers: texts the workflow produces
PlainAnswer == <<"resposta">>
Answers ==
    { <<>>,
      PlainAnswer,
      <<"resposta", " ", "atual">>,
      <<"thornthwaite">>,
      <<"thornthwaite", " ", "penman", " ", "blaney-criddle", " ", "hargreaves">>,
      <<"Brasil">>,
      <<"brasil", " ", "brazil", " ", "nordeste", " ", "sudeste", " ", "norte", " ", "sul">> }

\* a call raises, returns None, returns a dict without 'solution', or
\* returns a dict with a solution
NoResponse == NONE
NoSolution == Some(NONE)
Solution(a) == Some(Some(a))
Replies(answers) ==
    {RAISE, Ok(NoResponse), Ok(NoSolution)} \cup {Ok(Solution(a)) : a \in answers}

\* rag_response and 'solution' in rag_response
HasSolution(reply) == reply # RAISE /\ reply[2] # NONE /\ reply[2][1] # NONE

\* the calls of one evaluation: all answered alike, but for the first or the
\* last of them
Behaviours(answers) ==
    [usual : Replies(answers), odd : Replies(answers), at : {"none", "first", "last"}]

\* the k-th of n calls
Reply(b, k, n) ==
    IF (b.at = "first" /\ k = 1) \/ (b.at = "last" /\ k = n) THEN b.odd ELSE b.usual

-----------------------------------------------------------------------------
(* GISKARD robustness: GiskardEvaluator.evaluate_robustness *)

\* _calculate_response_similarity
calculate_response_similarity(response1, response2) ==
    IF response1 = <<>> \/ response2 = <<>> THEN Zero
    ELSE LET tokens1 == Words(LowerText(response1))
             tokens2 == Words(LowerText(response2))
         IN IF tokens1 = {} /\ tokens2 = {} THEN One
            ELSE IF tokens1 = {} \/ tokens2 = {} THEN Zero
            ELSE Rat(Cardinality(tokens1 \cap tokens2), Cardinality(tokens1 \cup tokens2))

\* the body of the try in the loop over the variants: the similarity of the
\* variant's answer, 0.0 when anything raises
VariantScore(original_answer, reply) ==
    IF reply = RAISE \/ reply[2] = NoResponse THEN Zero
    ELSE calculate_response_similarity(original_answer, StateGet(reply[2][1], <<>>))

\* variant: every variant is handed to the workflow
KeepVariant_Any(variant) == TRUE

\* for variant in variants: if not variant.strip(): continue
KeepVariant(variant) == ~SkipVariant(variant)

\* one list after the other
RECURSIVE Chained(_)
Chained(ss) == IF ss = <<>> THEN <<>> ELSE Head(ss) \o Chained(Tail(ss))

\* variant: the two scores are added, not averaged
RobustnessScore_Sum(overall_robustness, judged) ==
    IF judged = RAISE THEN overall_robustness
    ELSE RAdd(overall_robustness, judged[2])

\* final_score = (overall_robustness + llm_eval.score) / 2, and the except branch
RobustnessScore(overall_robustness, judged) ==
    IF judged = RAISE THEN overall_robustness
    ELSE RDiv(RAdd(overall_robustness, judged[2]), 2)

\* the variants the loop hands to the workflow, test by test
variants_run(q) ==
    List([i \in DOMAIN TestNames |-> SelectSeq(robustness_tests(q)[i], KeepVariant)])

\* those of the questions of the catalog
CatalogRuns ==
    [t \in {question_text(i) : i \in DOMAIN Catalog} |-> variants_run(t)]

\* scores, test by test: the similarity of every variant that was run; the
\* k-th call of the workflow is the k-th variant run
VariantScores(original_answer, b, run, lens) ==
    List([i \in DOMAIN run |->
        List([j \in 1..lens[i] |->
            VariantScore(original_answer,
                         Reply(b, SumInt(SubSeq(lens, 1, i - 1)) + j, SumInt(lens) + 1))])])

\* test_results[test_name] = np.mean(scores) if scores else 0.0
TestResults(scores) ==
    List([i \in DOMAIN scores |-> IF scores[i] = <<>> THEN Zero ELSE np_mean(scores[i])])

\* what the judge call yields: variant_response.get raises on None, and a
\* workflow that raises is caught by the same except
Judged(variant_response, judge) ==
    IF variant_response = RAISE \/ variant_response[2] = NoResponse THEN RAISE ELSE judge

\* the RobustnessEval returned, with the calls that were made
RobustnessEval(run, scores, test_results, representative_variant, judged) ==
    [score |-> RobustnessScore(np_mean(test_results), judged),
     reasoning |-> IF judged = RAISE THEN "error" ELSE "judge",
     stress_test_results |-> test_results,
     scores |-> scores,
     calls |-> run,
     representative |-> representative_variant,
     workflow_calls |-> Chained(run) \o <<representative_variant>>]

\* the loop over the tests, then the judge
RobustnessOfScores(original_qa, judge, run, scores, variant_response) ==
    RobustnessEval(run, scores, TestResults(scores),
                   generate_format_variants(original_qa.question)[1],
                   Judged(variant_response, judge))

\* the variants run, and the call for the representative variant after them
RobustnessOfRun(original_qa, b, judge, run, lens) ==
    RobustnessOfScores(original_qa, judge, run,
                       VariantScores(original_qa.answer, b, run, lens),
                       Reply(b, SumInt(lens) + 1, SumInt(lens) + 1))

Lens(run) == List([i \in DOMAIN run |-> Len(run[i])])

VariantsRunFor(q) == IF q \in DOMAIN CatalogRuns THEN CatalogRuns[q] ELSE variants_run(q)

\* evaluate_robustness(original_qa, rag_system_func); b: what the workflow does
\* call by call, judge: what chain.invoke does
evaluate_robustness(original_qa, b, judge) ==
    RobustnessOfRun(original_qa, b, judge, VariantsRunFor(original_qa.question),
                    Lens(VariantsRunFor(original_qa.question)))

-----------------------------------------------------------------------------
(* GISKARD bias, performance, consistency: GiskardEvaluator *)

MaxJudgeBiases == 1     \* most biases the judge reports in one answer

geographic_terms == <<"brasil", "brazil", "nordeste", "sudeste", "norte", "sul">>
temporal_terms == <<"atual", "moderno", "antigo", "recente", "histórico">>
methods == <<"thornthwaite", "penman", "blaney-criddle", "hargreaves">>

\* qa["answer"].lower(), for each pair
LoweredAnswers(pairs) == List([i \in DOMAIN pairs |-> LowerText(pairs[i].answer)])

\* for each term, the answers that hold it: term in answer
Mentions(terms, answers) ==
    List([t \in DOMAIN terms |->
        Cardinality({i \in DOMAIN answers : HasWord(answers[i], terms[t])})])

Positive(n) == n > 0

\* variant: the factor is 3, whatever the category
Skewed_Thrice(counts, factor) ==
    LET m == SelectSeq(counts, Positive) IN
    /\ Len(m) > 0
    /\ MaxInt(m) * Len(m) > 3 * SumInt(m)

\* len(m) > 0 and max(m.values()) > factor * np.mean(list(m.values()))
Skewed(counts, factor) ==
    LET m == SelectSeq(counts, Positive) IN
    /\ Len(m) > 0
    /\ MaxInt(m) * Len(m) > factor * SumInt(m)

\* temporal_balance > len(qa_pairs) * 0.7
TemporalBias(answers) ==
    SumInt(Mentions(temporal_terms, answers)) * 10 > Len(answers) * 7

\* detected_biases, from the three heuristics
DetectedIn(answers) ==
    (IF Skewed(Mentions(geographic_terms, answers), 3)
     THEN <<"Possível viés geográfico detectado">> ELSE <<>>)
    \o (IF TemporalBias(answers) THEN <<"Possível viés temporal detectado">> ELSE <<>>)
    \o (IF Skewed(Mentions(methods, answers), 2)
        THEN <<"Possível viés metodológico detectado">> ELSE <<>>)

heuristic_biases(pairs) == DetectedIn(LoweredAnswers(pairs))

\* what the bias judge answers: a score and the biases it detected
BiasAnswers ==
    [score : GridScores, detected_biases : SeqsUpTo({"viés"}, MaxJudgeBiases)]
BiasOutcomes == {Ok(e) : e \in BiasAnswers} \cup {RAISE}

\* variant: only the heuristics' findings are counted
penalised_HeuristicsOnly(detected_biases, llm_eval) ==
    RMax(Zero, RSub(llm_eval.score, RMul(Rat(Len(detected_biases), 1), Rat(1, 10))))

\* bias_score = max(0.0, llm_eval.score - len(all_detected_biases) * 0.1)
penalised(detected_biases, llm_eval) ==
    LET all_detected_biases == detected_biases \o llm_eval.detected_biases IN
    RMax(Zero, RSub(llm_eval.score, RMul(Rat(Len(all_detected_biases), 1), Rat(1, 10))))

\* the except branch of evaluate_bias
BiasErrorResult ==
    [score |-> Half, reasoning |-> "error",
     detected_biases |-> <<"Erro na avaliação de viés">>]

\* the BiasEval returned when the judge has answered
BiasEval(detected_biases, llm_eval) ==
    [score |-> penalised(detected_biases, llm_eval),
     reasoning |-> "judge",
     detected_biases |-> detected_biases \o llm_eval.detected_biases]

\* evaluate_bias(qa_pairs); judge: what chain.invoke does; qa_pairs[0] of an
\* empty list raises before the judge is called
evaluate_bias(pairs, judge) ==
    IF pairs = <<>> \/ judge = RAISE
    THEN BiasErrorResult
    ELSE BiasEval(heuristic_biases(pairs), judge[2])

\* evaluate_performance
evaluate_performance(judge) ==
    IF judge = RAISE
    THEN [score |-> Half, reasoning |-> "error"]
    ELSE [score |-> judge[2], reasoning |-> "judge"]

\* evaluate_consistency: the judge's answer is returned as it is
evaluate_consistency(judge) ==
    IF judge = RAISE
    THEN [score |-> Half, reasoning |-> "error"]
    ELSE [score |-> judge[2], reasoning |-> "judge"]

-----------------------------------------------------------------------------
(* GISKARD: GiskardEvaluator.evaluate_comprehensive *)

\* variant: the bias score is left out of the risk
risk_score_NoBias(robustness, bias, performance, consistency) ==
    RSub(One, RAdd(RAdd(RMul(robustness, Rat(1, 3)), RMul(performance, Rat(1, 3))),
                   RMul(consistency, Rat(1, 3))))

\* risk_score = 1.0 - (r * 0.25 + b * 0.25 + p * 0.25 + c * 0.25)
risk_score(robustness, bias, performance, consistency) ==
    RSub(One, RAdd(RAdd(RAdd(RMul(robustness, Rat(1, 4)), RMul(bias, Rat(1, 4))),
                        RMul(performance, Rat(1, 4))),
                   RMul(consistency, Rat(1, 4))))

\* if score < 0.7: recommendations.append(...)
Recommend(score, text) == IF RLess(score, Rat(7, 10)) THEN <<text>> ELSE <<>>

\* the result for an empty list of Q&A pairs
NoDataResult ==
    [robustness_score |-> Zero, bias_score |-> Zero, performance_score |-> Zero,
     consistency_score |-> Zero, overall_risk_score |-> One,
     recommendations |-> <<"Nenhum dado para avaliação">>, details |-> NONE]

\* GiskardResult(...), from the four evaluations
GiskardResult(robustness_eval, bias_eval, performance_eval, consistency_eval) ==
    [robustness_score |-> robustness_eval.score,
     bias_score |-> bias_eval.score,
     performance_score |-> performance_eval.score,
     consistency_score |-> consistency_eval.score,
     overall_risk_score |-> risk_score(robustness_eval.score, bias_eval.score,
                                       performance_eval.score, consistency_eval.score),
     recommendations |->
         Recommend(robustness_eval.score, "Melhorar robustez")
         \o Recommend(bias_eval.score, "Revisar potenciais vieses")
         \o Recommend(performance_eval.score, "Otimizar precisão")
         \o Recommend(consistency_eval.score, "Melhorar consistência"),
     details |-> Some([stress_test_results |-> robustness_eval.stress_test_results,
                       detected_biases |-> bias_eval.detected_biases])]

\* evaluate_comprehensive(qa_pairs, rag_system_func, response_times); b: what
\* the workflow does call by call, judges: what the four judge calls do
evaluate_comprehensive(pairs, b, judges) ==
    IF pairs = <<>>
    THEN NoDataResult
    ELSE GiskardResult(evaluate_robustness(pairs[1], b, judges.robustness),
                       evaluate_bias(pairs, judges.bias),
                       evaluate_performance(judges.performance),
                       evaluate_consistency(judges.consistency))

-----------------------------------------------------------------------------
(* System health: evaluation_ui.render_insights_dashboard *)

\* variant: a value on a threshold belongs to the band above it
health_level_Inclusive(overall_health) ==
    IF RLeq(Rat(8, 10), overall_health) THEN "Excelente"
    ELSE IF RLeq(Rat(6, 10), overall_health) THEN "Bom"
    ELSE IF RLeq(Rat(4, 10), overall_health) THEN "Moderado"
    ELSE "Necessita Melhoria"

\* health_level = "Excelente" if overall_health > 0.8 else "Bom" if ... > 0.6 ...
health_level(overall_health) ==
    IF RLess(Rat(8, 10), overall_health) THEN "Excelente"
    ELSE IF RLess(Rat(6, 10), overall_health) THEN "Bom"
    ELSE IF RLess(Rat(4, 10), overall_health) THEN "Moderado"
    ELSE "Necessita Melhoria"

\* ragas_score, giskard_score and overall_health
overall_health(ragas, giskard) ==
    LET ragas_score == RDiv(RSum(Column(ragas, "overall_score")), Len(ragas))
        giskard_score == RDiv(RAdd(RAdd(RAdd(giskard.robustness_score,
                                             giskard.performance_score),
                                        giskard.consistency_score),
                                   giskard.bias_score), 4)
    IN RDiv(RAdd(ragas_score, giskard_score), 2)

\* render_insights_dashboard(ragas_results, giskard_results): the health line,
\* shown when both results are there; giskard: NONE or Some(result)
render_insights_dashboard(ragas, giskard) ==
    IF ragas # <<>> /\ giskard # NONE
    THEN Some([overall_health |-> overall_health(ragas, giskard[1]),
               health_level |-> health_level(overall_health(ragas, giskard[1]))])
    ELSE NONE

-----------------------------------------------------------------------------
(* The evaluation coordinator: EvaluationCoordinator *)

MaxSubset == 2      \* largest max_questions an evaluation is started with

Buttons == {"run_ragas", "run_giskard", "run_both"}

\* what the workflow and the judges do during a coordinated evaluation
SessionReplies == Replies({PlainAnswer})
SessionJudgements ==
    { <<Ok(One), Ok(One), Ok(One), Ok(One)>>, <<Ok(One), RAISE, Ok(One), Ok(One)>> }
SessionBehaviours ==
    {[usual |-> r, odd |-> r, at |-> "none"] : r \in {RAISE, Ok(Solution(PlainAnswer))}}
SessionJudges ==
    { [robustness |-> Ok(One), bias |-> Ok([score |-> One, detected_biases |-> <<>>]),
       performance |-> Ok(One), consistency |-> Ok(One)],
      [robustness |-> RAISE, bias |-> RAISE, performance |-> RAISE, consistency |-> RAISE] }

\* qa_pair = {"question": ..., "answer": rag_response['solution'], ...}
QAPair(id, answer) == [id |-> id, question |-> question_text(id), answer |-> answer]

\* the lists of Q&A pairs a session can collect: the questions of a subset
\* that were answered, in the order of the subset
RECURSIVE Answered(_, _)
Answered(subset, ids) ==
    IF subset = <<>> THEN <<>>
    ELSE (IF Head(subset).id \in ids THEN <<QAPair(Head(subset).id, PlainAnswer)>> ELSE <<>>)
         \o Answered(Tail(subset), ids)

SessionPairs ==
    {Answered(get_evaluation_subset(MaxSubset), ids) : ids \in SUBSET (DOMAIN Catalog)}
        \ {<<>>}

\* evaluate_comprehensive on the inputs of a session, computed once
SessionResults ==
    [pairs \in SessionPairs, b \in SessionBehaviours, judges \in SessionJudges |->
        evaluate_comprehensive(pairs, b, judges)]

\* a result of the RAGAS run, with the question it belongs to
Tagged(id, r) ==
    [question |-> id, faithfulness |-> r.faithfulness,
     answer_relevancy |-> r.answer_relevancy, context_precision |-> r.context_precision,
     context_recall |-> r.context_recall, overall_score |-> r.overall_score,
     details |-> r.details]

\* variant: a failure ends the loop over the questions
NextQuestion_Abort(failed, i, n) == IF failed THEN n ELSE i + 1

\* for i, bhc_question in enumerate(questions): the try/except is inside the
\* loop, which goes on to the next question, whatever happened to this one
NextQuestion(failed, i, n) == i + 1

\* get_cached_results
get_cached_results ==
    <<evaluation_results.ragas_results, evaluation_results.giskard_results>>

NoEvaluation ==
    /\ button' = "none"
    /\ max_questions' = NONE
    /\ questions' = <<>>
    /\ qidx' = 0
    /\ ragas_results' = <<>>
    /\ qa_pairs' = <<>>
    /\ giskard_results' = NONE
    /\ workflowLog' = <<>>
    /\ response_times' = <<>>
    /\ giskardCall' = NONE

\* render_evaluation_interface: one of the buttons was pressed; the run it
\* starts selects its subset
StartEvaluation ==
    /\ epc = "idle"
    /\ \E b \in Buttons, mq \in 0..MaxSubset :
        /\ button' = b
        /\ max_questions' = Some(mq)
        /\ questions' = get_evaluation_subset(mq)
        /\ epc' = IF b = "run_giskard" THEN "giskard" ELSE "ragas"
    /\ qidx' = 0
    /\ ragas_results' = <<>>
    /\ qa_pairs' = <<>>
    /\ giskard_results' = NONE
    /\ workflowLog' = <<>>
    /\ response_times' = <<>>
    /\ giskardCall' = NONE
    /\ UNCHANGED <<evaluation_results, workflowVars, scoreVars, dataVars, docVars>>

\* run_ragas_evaluation: one pass of the loop over the questions
RagasQuestion ==
    /\ epc = "ragas"
    /\ qidx < Len(questions)
    /\ LET bhc_question == questions[qidx + 1] IN
       \E rag_response \in SessionReplies, judge \in SessionJudgements :
        /\ workflowLog' = Append(workflowLog, <<"ragas", bhc_question.id>>)
        /\ IF HasSolution(rag_response)
           THEN /\ ragas_results' =
                       Append(ragas_results,
                              Tagged(bhc_question.id, evaluate_single_qa(judge)))
                /\ qidx' = NextQuestion(\E i \in 1..4 : judge[i] = RAISE,
                                        qidx, Len(questions))
           ELSE /\ ragas_results' = ragas_results
                /\ qidx' = NextQuestion(TRUE, qidx, Len(questions))
    /\ UNCHANGED <<epc, button, max_questions, questions, qa_pairs, giskard_results,
                   response_times, giskardCall, evaluation_results, workflowVars, scoreVars, dataVars, docVars>>

\* variant: storing the RAGAS list starts from an empty cache
StoredRagas_Alone(results) ==
    [initialize_session_state EXCEPT !.ragas_results = Some(results)]

\* session_state.evaluation_results['ragas_results'] = ragas_results
StoredRagas(results) == [evaluation_results EXCEPT !.ragas_results = Some(results)]

\* run_ragas_evaluation returns; render_evaluation_interface stores the list,
\* run_comprehensive_evaluation goes on with run_giskard_evaluation
RagasReturn ==
    /\ epc = "ragas"
    /\ qidx >= Len(questions)
    /\ IF button = "run_both"
       THEN /\ epc' = "giskard"
            /\ questions' = get_evaluation_subset(max_questions[1])
            /\ qidx' = 0
            /\ UNCHANGED evaluation_results
       ELSE /\ epc' = "returned"
            /\ evaluation_results' = StoredRagas(ragas_results)
            /\ UNCHANGED <<questions, qidx>>
    /\ UNCHANGED <<button, max_questions, ragas_results, qa_pairs, giskard_results,
                   workflowLog, response_times, giskardCall, workflowVars, scoreVars, dataVars, docVars>>

\* variant: the time of a call is kept whatever the call returned
TimesAfter_Always(times, rag_response, response_time) == Append(times, response_time)

\* response_times.append(response_time), next to qa_pairs.append(qa_pair)
TimesAfter(times, rag_response, response_time) ==
    IF HasSolution(rag_response) THEN Append(times, response_time) ELSE times

\* run_giskard_evaluation: one pass of the loop over the questions; the time
\* measured around a call is written as the place of the call in the log
GiskardQuestion ==
    /\ epc = "giskard"
    /\ qidx < Len(questions)
    /\ LET bhc_question == questions[qidx + 1] IN
       \E rag_response \in SessionReplies :
        /\ workflowLog' = Append(workflowLog, <<"giskard", bhc_question.id>>)
        /\ qa_pairs' =
               IF HasSolution(rag_response)
               THEN Append(qa_pairs, QAPair(bhc_question.id, rag_response[2][1][1]))
               ELSE qa_pairs
        /\ response_times' =
               TimesAfter(response_times, rag_response, [call |-> Len(workflowLog) + 1])
        /\ qidx' = NextQuestion(~HasSolution(rag_response), qidx, Len(questions))
    /\ UNCHANGED <<epc, button, max_questions, questions, ragas_results,
                   giskard_results, giskardCall, evaluation_results, workflowVars, scoreVars, dataVars, docVars>>

\* variant: the comprehensive run stores the GISKARD result alone
Stored_GiskardOnly(result) == [evaluation_results EXCEPT !.giskard_results = result]

\* session_state.evaluation_results after the run that ends with `result`
Stored(result) ==
    IF button = "run_both"
    THEN [ragas_results |-> Some(ragas_results), giskard_results |-> result,
          last_evaluation_time |-> Some("time.time()"),
          evaluation_settings |-> max_questions]
    ELSE [evaluation_results EXCEPT !.giskard_results = result]

\* run_giskard_evaluation after the loop: None without Q&A pairs,
\* evaluate_comprehensive otherwise; then the caller stores what it has
GiskardReturn ==
    /\ epc = "giskard"
    /\ qidx >= Len(questions)
    /\ \E b \in SessionBehaviours, judges \in SessionJudges :
        giskard_results' = IF qa_pairs = <<>> THEN NONE
                           ELSE Some(SessionResults[qa_pairs, b, judges])
    /\ giskardCall' = IF qa_pairs = <<>> THEN NONE
                      ELSE Some([qa_pairs |-> qa_pairs, response_times |-> response_times])
    /\ evaluation_results' = Stored(giskard_results')
    /\ epc' = "returned"
    /\ UNCHANGED <<button, max_questions, questions, qidx, ragas_results, qa_pairs,
                   workflowLog, response_times, workflowVars, scoreVars, dataVars, docVars>>

\* render_evaluation_interface is done: the dashboard is drawn from the cache
FinishEvaluation ==
    /\ epc = "returned"
    /\ epc' = "idle"
    /\ NoEvaluation
    /\ UNCHANGED <<evaluation_results, workflowVars, scoreVars, dataVars, docVars>>

\* clear_cached_results
ClearCachedResults ==
    /\ epc = "idle"
    /\ evaluation_results # initialize_session_state
    /\ evaluation_results' =
           [ragas_results |-> NONE, giskard_results |-> NONE,
            last_evaluation_time |-> NONE, evaluation_settings |-> NONE]
    /\ UNCHANGED <<epc, button, max_questions, questions, qidx, ragas_results,
                   qa_pairs, giskard_results, workflowLog, response_times,
                   giskardCall, workflowVars, scoreVars, dataVars, docVars>>

EvalNext ==
    \/ StartEvaluation
    \/ RagasQuestion
    \/ RagasReturn
    \/ GiskardQuestion
    \/ GiskardReturn
    \/ FinishEvaluation
    \/ ClearCachedResults

EvalSpec == Init /\ [][EvalNext]_vars

-----------------------------------------------------------------------------
(* The evaluators called on their own: one call, then its return *)

MaxRequested == 10      \* largest max_questions asked of the dataset

\* render_evaluation_runner: the numbers of questions the interface offers
QuestionOptions == {3, 5, 10}
MaxBatch == 2           \* most RAGAS results of one kind in a batch
MaxCopies == 5          \* most Q&A pairs with one answer in a list scanned for bias

\* the judges of one question agree, but for one of them at most
NearUniform(S) ==
    {j \in [1..4 -> S] : \E k \in 1..4 : \A i, i2 \in (1..4) \ {k} : j[i] = j[i2]}

\* some items of one kind, then some of another
Copies(x, n) == List([i \in 1..n |-> x])

\* the lists of results that are aggregated
BatchResults == {evaluate_single_qa(List(j)) : j \in NearUniform(ScoreOutcomes)}
Batches ==
    {Copies(r, n) \o Copies(r2, m) :
        r \in BatchResults, r2 \in BatchResults, n \in 0..MaxBatch, m \in 0..MaxBatch}

\* the results the dashboard is drawn from: the first score may differ from
\* the other three
FirstOdd(S) == {<<first, rest, rest, rest>> : first \in S, rest \in S}
HealthResults == {evaluate_single_qa(j) : j \in FirstOdd(ScoreOutcomes)}
HealthBatches ==
    {<<>>} \cup {Copies(r, n) \o <<r2>> :
                    r \in HealthResults, r2 \in HealthResults, n \in 0..(MaxBatch - 1)}

\* a GiskardResult, as far as the dashboard reads it
DimensionScores(j) ==
    [robustness_score |-> j[1], bias_score |-> j[2], performance_score |-> j[3],
     consistency_score |-> j[4]]
GiskardScores == {DimensionScores(j) : j \in FirstOdd(GridScores)}

\* the Q&A pairs handed to the robustness test: a question of the catalog
\* with both kinds of words, one with neither, and the answer recorded for it
ScoredQuestions == {q \in DOMAIN Catalog : q = 1 \/ q = Len(Catalog)}
ScoredPairs == {QAPair(q, a) : q \in ScoredQuestions, a \in {<<>>, PlainAnswer}}
ScoredBehaviours == Behaviours({<<>>, PlainAnswer})

\* the lists scanned for bias: some pairs with one answer, then some with
\* another
BiasPairs ==
    {Copies(QAPair(1, a), n) \o Copies(QAPair(1, b), m) :
        a \in Answers, b \in Answers, n \in 0..MaxCopies, m \in 0..MaxCopies}

ComprehensivePairs ==
    {<<>>, <<QAPair(1, PlainAnswer)>>,
     <<QAPair(1, <<"resposta", " ", "atual">>), QAPair(Len(Catalog), PlainAnswer)>>}
ComprehensiveBehaviours ==
    {[usual |-> u, odd |-> RAISE, at |-> a] :
        u \in {RAISE, Ok(Solution(PlainAnswer))}, a \in {"none", "last"}}
ComprehensiveJudges ==
    [robustness : ScoreOutcomes, bias : BiasOutcomes,
     performance : {RAISE, Ok(Zero), Ok(One)},
     consistency : {RAISE, Ok(Zero), Ok(One)}]

Call(name, arguments, result) ==
    /\ op' = name
    /\ args' = Some(arguments)
    /\ ret' = Some(result)
    /\ UNCHANGED <<workflowVars, evalVars, dataVars, docVars>>

CallSubset ==
    /\ op = "none"
    /\ \E n \in 0..MaxRequested : Call("get_evaluation_subset", n, get_evaluation_subset(n))

CallSingleQA ==
    /\ op = "none"
    /\ \E judge \in [1..4 -> ScoreOutcomes] :
           Call("evaluate_single_qa", List(judge), evaluate_single_qa(List(judge)))

CallAggregate ==
    /\ op = "none"
    /\ \E results \in Batches :
           Call("get_aggregate_metrics", results, get_aggregate_metrics(results))

CallRobustness ==
    /\ op = "none"
    /\ \E original_qa \in ScoredPairs, b \in ScoredBehaviours, judge \in ScoreOutcomes :
           Call("evaluate_robustness", <<original_qa, b, judge>>,
                evaluate_robustness(original_qa, b, judge))

CallBias ==
    /\ op = "none"
    /\ \E pairs \in BiasPairs, judge \in BiasOutcomes :
           Call("evaluate_bias", <<pairs, judge>>, evaluate_bias(pairs, judge))

CallPerformance ==
    /\ op = "none"
    /\ \E judge \in ScoreOutcomes :
           Call("evaluate_performance", judge, evaluate_performance(judge))

CallConsistency ==
    /\ op = "none"
    /\ \E judge \in ScoreOutcomes :
           Call("evaluate_consistency", judge, evaluate_consistency(judge))

CallComprehensive ==
    /\ op = "none"
    /\ \E pairs \in ComprehensivePairs, b \in ComprehensiveBehaviours,
          judges \in ComprehensiveJudges :
           Call("evaluate_comprehensive", <<pairs, b, judges>>,
                evaluate_comprehensive(pairs, b, judges))

CallDashboard ==
    /\ op = "none"
    /\ \E ragas \in HealthBatches, giskard \in {NONE} \cup {Some(g) : g \in GiskardScores} :
           Call("render_insights_dashboard", <<ragas, giskard>>,
                render_insights_dashboard(ragas, giskard))

\* the words searched for; the last one stands in no question
Queries == {"BHC", "Hídrico", "balanço", "solo"}

CallDataset ==
    /\ op = "none"
    /\ \/ Call("get_all_questions", NONE, get_all_questions)
       \/ \E c \in DOMAIN QuestionCategory :
              Call("get_questions_by_category", QuestionCategory[c],
                   get_questions_by_category(QuestionCategory[c]))
       \/ \E d \in DOMAIN DifficultyLevel :
              Call("get_questions_by_difficulty", DifficultyLevel[d],
                   get_questions_by_difficulty(DifficultyLevel[d]))
       \/ \E question_id \in 0..(Len(Catalog) + 1) :
              Call("get_question_by_id", question_id, get_question_by_id(question_id))
       \/ \E query \in Queries : Call("search_questions", query, search_questions(query))
       \/ Call("get_statistics", NONE, get_statistics)
       \/ Call("to_dict_format", NONE, to_dict_format)

\* _evaluate on a state with the passages retrieved and with or without an
\* online_search key
CallEvaluate ==
    /\ op = "none"
    /\ \E flag \in {NONE, Some(FALSE), Some(TRUE)}, docs \in Retrievals :
       \E responses \in [1..Len(docs) -> JudgeOutcomes] :
           LET r == evaluate(<<"a">>, docs, StateGet(flag, FALSE), responses) IN
           Call("_evaluate",
                [online_search |-> flag, documents |-> docs, responses |-> responses],
                IF r.raised THEN RAISE ELSE Ok(evaluate_return(r)))

Return ==
    /\ op # "none"
    /\ op' = "none"
    /\ args' = NONE
    /\ ret' = NONE
    /\ UNCHANGED <<workflowVars, evalVars, dataVars, docVars>>

ScoreNext ==
    \/ CallSubset
    \/ CallSingleQA
    \/ CallAggregate
    \/ CallRobustness
    \/ CallBias
    \/ CallPerformance
    \/ CallConsistency
    \/ CallComprehensive
    \/ CallDashboard
    \/ CallDataset
    \/ CallEvaluate
    \/ Return

ScoreSpec == Init /\ [][ScoreNext]_vars

-----------------------------------------------------------------------------
(* Document processing and the retriever handle: DocumentProcessor,
   app.main, RAGWorkflow.set_retriever / get_current_retriever *)

\* app.main: local_pdf_path
local_pdf_path == <<"local_data/geografo_proposta.pdf">>

\* the paths process_local_file is called with; the first one is empty
LocalPaths == {<<>>, local_pdf_path}

\* uploaded files: a name and a size
SupportedFile == [name |-> "a.pdf", size |-> "1"]
UnsupportedFile == [name |-> "b.xyz", size |-> "1"]
Uploads == {NONE, Some(SupportedFile), Some(UnsupportedFile)}

\* uploaded_file.name.split('.')[-1].lower()
Extension(name) == CASE name = "a.pdf" -> "pdf" [] name = "b.xyz" -> "xyz"

\* get_upload_info(user_file)['is_supported']
is_supported(user_file) == Extension(user_file.name) \in {"pdf"}

\* f"local_{file_path}"
local_file_key(file_path) == <<"local_">> \o file_path

\* utils.get_file_key: f"{uploaded_file.name}_{uploaded_file.size}"
get_file_key(uploaded_file) == <<uploaded_file.name, "_", uploaded_file.size>>

\* the stages of the pipeline, and what a run of it does: every stage
\* returns, or one of them raises
Stages == <<"load", "chunk", "embed">>
PipelineOutcomes == {"ok", "load", "chunk", "embed"}

\* the stages that were entered when the run ends
StagesRun(outcome) ==
    CASE outcome = "load"  -> SubSeq(Stages, 1, 1)
      [] outcome = "chunk" -> SubSeq(Stages, 1, 2)
      [] OTHER             -> Stages

\* chroma_db.as_retriever(), for the chunks of the file with this key
Built(key) == [file |-> key]

\* what a call does to the session: the two keys of session_state, the value
\* returned and the stages entered
Outcome(pf, r, returned, stages) ==
    [processed_file |-> pf, retriever |-> r, returned |-> returned, stages |-> stages]

\* variant: the key is recorded as soon as the file has been loaded
pipeline_RecordFirst(current_file_key, s, outcome) ==
    IF outcome = "ok"
    THEN Outcome(Some(current_file_key), Some(Built(current_file_key)),
                 Some(Built(current_file_key)), StagesRun(outcome))
    ELSE IF outcome = "load"
    THEN Outcome(s.processed_file, s.retriever, NONE, StagesRun(outcome))
    ELSE Outcome(Some(current_file_key), s.retriever, NONE, StagesRun(outcome))

\* _process_local_file_pipeline / _execute_processing_pipeline inside the try
\* of the caller: session_state is written after the last stage, and an
\* exception of a stage ends the call with None
pipeline(current_file_key, s, outcome) ==
    IF outcome = "ok"
    THEN Outcome(Some(current_file_key), Some(Built(current_file_key)),
                 Some(Built(current_file_key)), StagesRun(outcome))
    ELSE Outcome(s.processed_file, s.retriever, NONE, StagesRun(outcome))

\* variant: the file is processed again, whatever the session holds
SameFile_Never(s, current_file_key) == FALSE

\* st.session_state.get('processed_file') == current_file_key
SameFile(s, current_file_key) == s.processed_file = Some(current_file_key)

\* DocumentProcessor.process_local_file
process_local_file(file_path, s, outcome) ==
    IF file_path = <<>>
    THEN Outcome(s.processed_file, s.retriever, NONE, <<>>)
    ELSE IF SameFile(s, local_file_key(file_path))
    THEN Outcome(s.processed_file, s.retriever, s.retriever, <<>>)
    ELSE pipeline(local_file_key(file_path), s, outcome)

\* DocumentProcessor.process_file, with _process_new_file
process_file(user_file, s, outcome) ==
    IF user_file = NONE
    THEN Outcome(s.processed_file, s.retriever, NONE, <<>>)
    ELSE IF SameFile(s, get_file_key(user_file[1]))
    THEN Outcome(s.processed_file, s.retriever, s.retriever, <<>>)
    ELSE IF ~is_supported(user_file[1])
    THEN Outcome(s.processed_file, s.retriever, NONE, <<>>)
    ELSE pipeline(get_file_key(user_file[1]), s, outcome)

\* the session as a call finds it
Session == [processed_file |-> processed_file, retriever |-> retriever]

\* a call of the document processor or of the handle: what it was called
\* with, the session it found, what the pipeline does when it is run, the
\* stages entered and the value returned
DocCall(fn, argument, key, outcome, o) ==
    /\ dcall' = Some([fn |-> fn, argument |-> argument, key |-> key, before |-> Session,
                      pipeline |-> outcome, stages |-> o.stages,
                      returned |-> o.returned])
    /\ processed_file' = o.processed_file
    /\ retriever' = o.retriever

\* the script is single-threaded: a call starts when nothing else runs
Quiet == pc = Idle /\ dcall = NONE

ProcessLocalFile ==
    /\ Quiet
    /\ \E file_path \in LocalPaths, outcome \in PipelineOutcomes :
           DocCall("process_local_file", file_path,
                   IF file_path = <<>> THEN NONE ELSE Some(local_file_key(file_path)),
                   outcome,
                   process_local_file(file_path, Session, outcome))
    /\ UNCHANGED <<local_file_processed, handleVars, workflowVars, evalVars, scoreVars,
                   dataVars>>

ProcessFile ==
    /\ Quiet
    /\ \E user_file \in Uploads, outcome \in PipelineOutcomes :
           DocCall("process_file", user_file,
                   IF user_file = NONE THEN NONE ELSE Some(get_file_key(user_file[1])),
                   outcome,
                   process_file(user_file, Session, outcome))
    /\ UNCHANGED <<local_file_processed, handleVars, workflowVars, evalVars, scoreVars,
                   dataVars>>

\* app.main, lines 152-170: the local document is processed until it has
\* succeeded once; then the session is given the retriever and the bare path
MainLoadLocal ==
    /\ Quiet
    /\ ~local_file_processed
    /\ \E outcome \in PipelineOutcomes :
         LET o == process_local_file(local_pdf_path, Session, outcome) IN
         /\ dcall' = Some([fn |-> "main", argument |-> local_pdf_path,
                           key |-> Some(local_file_key(local_pdf_path)),
                           before |-> Session, pipeline |-> outcome,
                           stages |-> o.stages, returned |-> o.returned])
         /\ IF o.returned # NONE
            THEN /\ retriever' = o.returned
                 /\ local_file_processed' = TRUE
                 /\ processed_file' = Some(local_pdf_path)
            ELSE /\ retriever' = o.retriever
                 /\ processed_file' = o.processed_file
                 /\ UNCHANGED local_file_processed
    /\ UNCHANGED <<handleVars, workflowVars, evalVars, scoreVars, dataVars>>

\* variant: the key is kept when the retriever is cleared
retriever_key_Kept(r, s, key) == IF r # NONE THEN s.processed_file ELSE key

\* set_retriever: the key that goes with the retriever
retriever_key(r, s, key) == IF r # NONE THEN s.processed_file ELSE NONE

\* RAGWorkflow.set_retriever, called with None or with what the session holds
SetRetriever ==
    /\ Quiet
    /\ \E r \in {NONE, retriever} :
        /\ wf_retriever' = r
        /\ wf_key' = retriever_key(r, Session, wf_key)
        /\ dcall' = Some([fn |-> "set_retriever", argument |-> r, key |-> NONE,
                          before |-> Session, pipeline |-> "none", stages |-> <<>>,
                          returned |-> NONE])
    /\ UNCHANGED <<sessionVars, workflowVars, evalVars, scoreVars, dataVars>>

\* get_current_retriever: the retriever returned
current_retriever(own, s) == IF own # NONE THEN own ELSE s.retriever

\* RAGWorkflow.get_current_retriever: the retriever of the session is taken
\* over when the workflow has none of its own
GetCurrentRetriever ==
    /\ Quiet
    /\ wf_retriever' = current_retriever(wf_retriever, Session)
    /\ dcall' = Some([fn |-> "get_current_retriever", argument |-> NONE, key |-> NONE,
                      before |-> Session, pipeline |-> "none", stages |-> <<>>,
                      returned |-> current_retriever(wf_retriever, Session)])
    /\ UNCHANGED <<wf_key, sessionVars, workflowVars, evalVars, scoreVars, dataVars>>

\* the call has returned
DocReturn ==
    /\ dcall # NONE
    /\ dcall' = NONE
    /\ UNCHANGED <<sessionVars, handleVars, workflowVars, evalVars, scoreVars, dataVars>>

\* app.main, line 172: questions are taken once the local document is there
QuestionSection == Quiet /\ local_file_processed /\ runs = 0 /\ HandleUserInteraction

DocNext ==
    \/ MainLoadLocal
    \/ ProcessLocalFile
    \/ ProcessFile
    \/ SetRetriever
    \/ GetCurrentRetriever
    \/ DocReturn
    \/ QuestionSection
    \/ GraphStep
    \/ FinishInteraction

DocSpec == Init /\ [][DocNext]_vars

-----------------------------------------------------------------------------
(* Observations used by the properties *)

Last(s) == s[Len(s)]

AllHallucinated ==
    /\ verdictLog # <<>>
    /\ \A i \in DOMAIN verdictLog : verdictLog[i] = HallucinationsDetected

RunOver == pc \in {END, Failed}

-----------------------------------------------------------------------------
C1_Ceiling ==
    /\ StateGet(retry_count, 0) <= MaxRetries + 1
    /\ (pc = END /\ AllHallucinated)
          => /\ retry_count = Some(MaxRetries + 1)
             /\ retry_limit_reached = Some(TRUE)
    /\ (pc = NodeGenerate /\ AllHallucinated)
          => StateGet(retry_count, 0) <= MaxRetries

(* C1: whatever the hallucination verdicts, a run terminates; retry_count  *)
(* never exceeds MaxRetries + 1, and a run whose every verdict was          *)
(* 'Hallucinations detected' ends with retry_count = MaxRetries + 1 and     *)
(* retry_limit_reached = true.                                              *)
C1_RetryBounded ==
    /\ []C1_Ceiling
    /\ (pc \in {NodeRetrieve, NodeGrade, NodeGenerate, CheckHalluc}) ~> RunOver

C1_Witness ==
    /\ pc = END
    /\ AllHallucinated
    /\ Len(verdictLog) = MaxRetries + 1
    /\ retry_limit_reached = Some(TRUE)

-----------------------------------------------------------------------------
(* C2: only the verdict 'Hallucinations detected' leads back to Generate    *)
(* Answer; 'Answers Question' and 'Question not addressed' end the run at   *)
(* once, and no generation attempt follows either of them.                  *)
C2_OnlyHallucinationLoops ==
    /\ (pc = NodeGenerate /\ genCalls > 0)
          => /\ verdictLog # <<>>
             /\ Last(verdictLog) = HallucinationsDetected
    /\ \A i \in DOMAIN verdictLog :
          verdictLog[i] \in {AnswersQuestion, QuestionNotAddressed}
             => /\ pc = END
                /\ i = Len(verdictLog)
                /\ genCalls = i

C2_Witness ==
    /\ pc = END
    /\ verdictLog = <<HallucinationsDetected, QuestionNotAddressed>>
    /\ genCalls = 2

-----------------------------------------------------------------------------
(* C3: retry_count starts at 0 and is raised by exactly 1 by every           *)
(* Generate Answer execution, on the fallback path and on the model path,   *)
(* and by no other step: it always equals the number of attempts made.      *)
C3_RetryCountIsAttempts ==
    /\ StateGet(retry_count, 0) = attempts
    /\ (retry_count = NONE) <=> (attempts = 0)

C3_Witness ==
    /\ pc = END
    /\ retry_count = Some(3)
    /\ lastGen.path = "model"
    /\ Len(verdictLog) = 3

-----------------------------------------------------------------------------
JudgeFailedAt(i) == i \in DOMAIN judgeLog /\ judgeLog[i].response = RAISE

(* C4: a relevance-judge call that fails during Grading is not absorbed:    *)
(* the run ends in failure, no later passage is graded, Generate Answer is  *)
(* never executed and no answer is produced.                                *)
C4_GradingFailureAborts ==
    \A i \in DOMAIN judgeLog :
        JudgeFailedAt(i)
           => /\ pc = Failed
              /\ i = Len(judgeLog)
              /\ genCalls = 0
              /\ verdictLog = <<>>
              /\ solution = NONE
              /\ document_evaluations = NONE

C4_Witness ==
    /\ pc = Failed
    /\ Len(judgeLog) = 1
    /\ JudgeFailedAt(1)
    /\ Len(retrieved[1]) = 2

-----------------------------------------------------------------------------
BlankSubmitted == submitted # NONE /\ Strip(submitted[1]) = <<>>

(* C5: an empty or whitespace-only question is refused before the workflow  *)
(* starts: process_question is not entered, the retriever, the judge and    *)
(* the generator are never called, and the question box shows the warning.  *)
C5_BlankQuestionRejected ==
    BlankSubmitted
       => /\ pc = Idle
          /\ question = NONE
          /\ retrieverCalls = 0
          /\ judgeLog = <<>>
          /\ genCalls = 0
          /\ verdictLog = <<>>
          /\ (via = "ui" /\ asked) => uiWarning

C5_Witness ==
    /\ via = "ui"
    /\ asked
    /\ submitted = Some(<<" ">>)
    /\ uiWarning
    /\ retrieverCalls = 0

-----------------------------------------------------------------------------
Graded == document_evaluations # NONE

SomeIrrelevant ==
    /\ Graded
    /\ \E i \in DOMAIN document_evaluations[1] :
           Lower(document_evaluations[1][i]) # "yes"

(* C6: after Grading, if some retrieved passage got a grade other than      *)
(* 'yes' (whatever the case of the letters), online_search is true and      *)
(* search_method is 'online', also when other passages were relevant.       *)
C6_AnyIrrelevantMarksOnline ==
    SomeIrrelevant
       => /\ online_search = Some(TRUE)
          /\ search_method = Some("online")

C6_Witness ==
    /\ document_evaluations = Some(<<"Yes", "no">>)
    /\ Len(documents[1]) = 1
    /\ search_method = Some("online")

-----------------------------------------------------------------------------
\* the positions graded 'yes', and the k-th of them
YesPositions(evals) == {i \in DOMAIN evals : Lower(evals[i]) = "yes"}
KthOf(S, k) == CHOOSE i \in S : Cardinality({j \in S : j <= i}) = k

(* C7: Grading grades every retrieved passage exactly once, in retrieval    *)
(* order, each call given the question and that passage only; afterwards    *)
(* document_evaluations holds one grade per passage in that order and the   *)
(* passage list is the subsequence of retrieved passages graded 'yes'.      *)
C7_GradesEveryPassageInOrder ==
    Graded
       => LET evals == document_evaluations[1]
              yes   == YesPositions(evals)
          IN  /\ Len(judgeLog) = Len(retrieved[1])
              /\ Len(evals) = Len(retrieved[1])
              /\ \A i \in DOMAIN judgeLog :
                    /\ judgeLog[i].question = question[1]
                    /\ judgeLog[i].document = retrieved[1][i]
                    /\ judgeLog[i].response = Ok(evals[i])
              /\ Len(documents[1]) = Cardinality(yes)
              /\ \A k \in DOMAIN documents[1] :
                    documents[1][k] = retrieved[1][KthOf(yes, k)]

C7_Witness ==
    /\ retrieved = Some(<<"p2", "p1">>)
    /\ document_evaluations = Some(<<"yes", "Yes">>)
    /\ documents = Some(<<"p2", "p1">>)

-----------------------------------------------------------------------------
AllIrrelevant ==
    /\ Graded
    /\ retrieved[1] # <<>>
    /\ \A i \in DOMAIN document_evaluations[1] :
           Lower(document_evaluations[1][i]) # "yes"

(* C8: when every retrieved passage is graded irrelevant, Grading still     *)
(* hands over to Generate Answer, with an empty passage list; the answer is *)
(* the fallback message and search_method is 'online'.                      *)
C8_AllIrrelevantFallsBack ==
    /\ (Graded /\ genCalls = 0) => pc = NodeGenerate
    /\ AllIrrelevant
          => /\ documents = Some(<<>>)
             /\ search_method = Some("online")
             /\ genCalls > 0
                   => /\ lastGen.path = "fallback"
                      /\ solution = Some(generate_fallback_response(question[1]))
                      /\ no_documents_available = Some(TRUE)

C8_Witness ==
    /\ AllIrrelevant
    /\ Len(retrieved[1]) = 2
    /\ pc = END
    /\ lastGen.path = "fallback"

-----------------------------------------------------------------------------
\* s occurs in t as a contiguous piece
Contains(t, s) ==
    \E i \in 0..(Len(t) - Len(s)) : SubSeq(t, i + 1, i + Len(s)) = s

EmptyPassages == documents = Some(<<>>) /\ Graded

(* C9: with an empty passage list Generate Answer calls no language model   *)
(* and returns a text that is a function of the question alone and holds    *)
(* the question verbatim: a later run with the same question returns the    *)
(* same answer as the first one, whatever the model would have done.        *)
C9_FallbackDeterministic ==
    /\ (EmptyPassages /\ genCalls > 0)
          => /\ lastGen.path = "fallback"
             /\ lastGen.out = NONE
             /\ solution # NONE
             /\ Contains(solution[1], question[1])
             /\ firstFallback # NONE
             /\ firstFallback[1].question = question[1]
                   => solution[1] = firstFallback[1].text
    /\ firstFallback # NONE
          => Contains(firstFallback[1].text, firstFallback[1].question)

C9_Witness ==
    /\ EmptyPassages
    /\ pc = END
    /\ firstFallback # NONE
    /\ firstFallback[1].run < runs
    /\ firstFallback[1].question = question[1]
    /\ solution = Some(firstFallback[1].text)

-----------------------------------------------------------------------------
(* C10: the fallback path, and with it no_documents_available, is taken     *)
(* exactly when the passage list is empty; for a non-empty list the answer  *)
(* is what the language model returned for that list and the question,      *)
(* never the fallback message.                                              *)
C10_FallbackOnlyWhenEmpty ==
    (Graded /\ genCalls > 0)
       => /\ (lastGen.path = "fallback") <=> (documents[1] = <<>>)
          /\ (no_documents_available = Some(TRUE)) <=> (documents[1] = <<>>)
          /\ documents[1] # <<>>
                => /\ lastGen.path = "model"
                   /\ lastGen.context = documents
                   /\ lastGen.question = question
                   /\ lastGen.out # RAISE
                         => /\ solution = Some(lastGen.out[2])
                            /\ solution[1] # generate_fallback_response(question[1])

C10_Witness ==
    /\ pc = END
    /\ Graded
    /\ Len(documents[1]) = 2
    /\ lastGen.out = Ok(<<"answer2">>)
    /\ solution = Some(<<"answer2">>)
    /\ no_documents_available = NONE

-----------------------------------------------------------------------------
(* Observations of an evaluation *)

\* the questions an engine called the workflow for, in the order of the calls
RECURSIVE CalledFor(_, _)
CalledFor(log, engine) ==
    IF log = <<>> THEN <<>>
    ELSE (IF Head(log)[1] = engine THEN <<Head(log)[2]>> ELSE <<>>)
         \o CalledFor(Tail(log), engine)

\* the first k questions of the subset
SubsetIds(k) == List([i \in 1..k |-> questions[i].id])

\* where a question stands in the subset
PlaceOf(id) == CHOOSE i \in DOMAIN questions : questions[i].id = id

\* the entries belong to questions of the subset, follow its order, and no
\* question has two of them
InSubsetOrder(entries, IdOf(_)) ==
    /\ \A i \in DOMAIN entries : \E j \in DOMAIN questions : questions[j].id = IdOf(entries[i])
    /\ \A i, j \in DOMAIN entries :
           i < j => PlaceOf(IdOf(entries[i])) < PlaceOf(IdOf(entries[j]))

ResultQuestion(r) == r.question
PairQuestion(p) == p.id

RagasRan == button \in {"run_ragas", "run_both"} /\ epc \in {"giskard", "returned"}
GiskardRan == button \in {"run_giskard", "run_both"} /\ epc = "returned"

-----------------------------------------------------------------------------
(* C11: in an evaluation run a failure on one question (the workflow call   *)
(* raises, the response has no solution, a judge call raises) never aborts  *)
(* the batch: the questions of the subset are attempted one after the       *)
(* other, all of them by the time the run has returned, and the results     *)
(* follow the order of the subset, at most one for a question.              *)
C11_BatchNeverAborted ==
    /\ epc = "ragas" => CalledFor(workflowLog, "ragas") = SubsetIds(qidx)
    /\ epc = "giskard" => CalledFor(workflowLog, "giskard") = SubsetIds(qidx)
    /\ RagasRan => CalledFor(workflowLog, "ragas") = SubsetIds(Len(questions))
    /\ GiskardRan => CalledFor(workflowLog, "giskard") = SubsetIds(Len(questions))
    /\ InSubsetOrder(ragas_results, ResultQuestion)
    /\ InSubsetOrder(qa_pairs, PairQuestion)

\* both engines lost their first question and went on to the second; the
\* judge of RAGAS failed on it and its result is still there
C11_Witness ==
    /\ epc = "returned"
    /\ button = "run_both"
    /\ Len(questions) = 2
    /\ Len(ragas_results) = 1
    /\ ragas_results[1].question = questions[2].id
    /\ ragas_results[1].details = "error"
    /\ Len(qa_pairs) = 1
    /\ qa_pairs[1].id = questions[2].id
    /\ giskard_results # NONE

-----------------------------------------------------------------------------
(* Observations of one call *)

Called(name) == op = name
Argument == args[1]
Result == ret[1]

RagasScores(r) ==
    <<r.faithfulness, r.answer_relevancy, r.context_precision, r.context_recall,
      r.overall_score>>

JudgeRaised(judge) == \E i \in DOMAIN judge : judge[i] = RAISE

-----------------------------------------------------------------------------
(* C12, as stated: whenever a judge call raises while a question (RAGAS) or *)
(* a dimension (GISKARD robustness, bias, performance, consistency) is      *)
(* scored, every score it would have produced is the neutral 0.5, and the   *)
(* error is recorded in the reasoning or in the details.                    *)
C12_NeutralEverywhere ==
    /\ (Called("evaluate_single_qa") /\ JudgeRaised(Argument))
          => /\ \A i \in 1..5 : RagasScores(Result)[i] = Half
             /\ Result.details = "error"
    /\ (Called("evaluate_robustness") /\ Argument[3] = RAISE)
          => Result.score = Half /\ Result.reasoning = "error"
    /\ (Called("evaluate_bias") /\ Argument[2] = RAISE)
          => Result.score = Half /\ Result.reasoning = "error"
    /\ (Called("evaluate_performance") /\ Argument = RAISE)
          => Result.score = Half /\ Result.reasoning = "error"
    /\ (Called("evaluate_consistency") /\ Argument = RAISE)
          => Result.score = Half /\ Result.reasoning = "error"

(* C12: whenever a judge call raises, the exception is caught and the error *)
(* is recorded in the reasoning or in the details; the scores put in its    *)
(* place are 0.0 for all five scores of a RAGAS question, the automated     *)
(* score (the mean of the per-axis averages) for robustness, and 0.5 for    *)
(* bias, performance and consistency, also inside evaluate_comprehensive.   *)
C12_ErrorDefaults ==
    /\ (Called("evaluate_single_qa") /\ JudgeRaised(Argument))
          => /\ \A i \in 1..5 : RagasScores(Result)[i] = Zero
             /\ Result.details = "error"
    /\ (Called("evaluate_robustness") /\ Argument[3] = RAISE)
          => /\ Result.score = np_mean(Result.stress_test_results)
             /\ Result.reasoning = "error"
    /\ (Called("evaluate_bias") /\ Argument[2] = RAISE)
          => Result.score = Half /\ Result.reasoning = "error"
    /\ (Called("evaluate_performance") /\ Argument = RAISE)
          => Result.score = Half /\ Result.reasoning = "error"
    /\ (Called("evaluate_consistency") /\ Argument = RAISE)
          => Result.score = Half /\ Result.reasoning = "error"
    /\ Called("evaluate_comprehensive") /\ Argument[1] # <<>>
          => /\ Argument[3].robustness = RAISE
                   => Result.robustness_score
                         = np_mean(Result.details[1].stress_test_results)
             /\ Argument[3].bias = RAISE => Result.bias_score = Half
             /\ Argument[3].performance = RAISE => Result.performance_score = Half
             /\ Argument[3].consistency = RAISE => Result.consistency_score = Half

\* the robustness judge raised and the score is the automated one, above 0.5
C12_Witness ==
    /\ Called("evaluate_robustness")
    /\ Argument[3] = RAISE
    /\ Result.reasoning = "error"
    /\ RLess(Half, Result.score)

-----------------------------------------------------------------------------
\* the calls of RAGAS come first in the log, those of GISKARD after them
RagasFirst(log) ==
    \A i, j \in DOMAIN log : (log[i][1] = "giskard" /\ log[j][1] = "ragas") => j < i

Comprehensive == button = "run_both"

\* what a step may do to the cache
CacheStep ==
    evaluation_results' # evaluation_results
        => \/ /\ Comprehensive
              /\ epc = "giskard" /\ epc' = "returned"
              /\ evaluation_results'.ragas_results = Some(ragas_results)
              /\ evaluation_results'.giskard_results = giskard_results'
           \/ /\ ~Comprehensive
              /\ epc \in {"ragas", "giskard"} /\ epc' = "returned"
           \/ /\ epc = "idle" /\ epc' = "idle"
              /\ evaluation_results' = initialize_session_state

(* C13: run_comprehensive_evaluation runs RAGAS over its whole subset to    *)
(* completion before the first workflow call of GISKARD, and stores the two *)
(* results in the session cache together, after both have finished; from    *)
(* then on get_cached_results returns these two results, until another      *)
(* evaluation or clear_cached_results replaces them.                        *)
C13_RagasThenGiskardThenCache ==
    /\ [](Comprehensive =>
            /\ RagasFirst(workflowLog)
            /\ CalledFor(workflowLog, "giskard") # <<>>
                  => CalledFor(workflowLog, "ragas") = SubsetIds(Len(questions))
            /\ epc = "returned"
                  => get_cached_results = <<Some(ragas_results), giskard_results>>)
    /\ [][CacheStep]_vars

\* a comprehensive run is over, with results of both engines in the cache
C13_Witness ==
    /\ Comprehensive
    /\ epc = "returned"
    /\ Len(ragas_results) = 2
    /\ giskard_results # NONE
    /\ get_cached_results = <<Some(ragas_results), giskard_results>>

-----------------------------------------------------------------------------
Ids(qs) == List([i \in DOMAIN qs |-> qs[i].id])

Count(qs, d) == Cardinality({i \in DOMAIN qs : qs[i].difficulty = d})

Increasing(ids) == \A i, j \in DOMAIN ids : i < j => ids[i] < ids[j]

Rank(d) == IF d = BASIC THEN 1 ELSE IF d = INTERMEDIATE THEN 2 ELSE 3

\* basic questions first, then intermediate, then advanced, and the order of
\* the catalog among questions of one difficulty
GroupedOrder(qs) ==
    \A i, j \in DOMAIN qs :
        i < j => \/ Rank(qs[i].difficulty) < Rank(qs[j].difficulty)
                 \/ /\ qs[i].difficulty = qs[j].difficulty
                    /\ qs[i].id < qs[j].id

TwoTwoOne(qs) ==
    /\ Len(qs) = 5
    /\ Count(qs, BASIC) = 2
    /\ Count(qs, INTERMEDIATE) = 2
    /\ Count(qs, ADVANCED) = 1

PrefixOfFive(qs, n) ==
    /\ Len(qs) = (IF n < 5 THEN n ELSE 5)
    /\ \A i \in DOMAIN qs : qs[i] = get_evaluation_subset(5)[i]

(* C14, as stated: on the catalog of 10 questions get_evaluation_subset(5)  *)
(* returns exactly 2 basic, 2 intermediate and 1 advanced question, in      *)
(* catalog order; get_evaluation_subset(1) returns one question, a basic    *)
(* one; get_evaluation_subset(n) is the prefix of length n of the five.     *)
C14_SubsetInCatalogOrder ==
    Called("get_evaluation_subset") =>
        /\ Argument = 5 => TwoTwoOne(Result) /\ Increasing(Ids(Result))
        /\ Argument = 1 => Len(Result) = 1 /\ Result[1].difficulty = BASIC
        /\ PrefixOfFive(Result, Argument)

(* C14: get_evaluation_subset(5) returns exactly 2 basic, 2 intermediate    *)
(* and 1 advanced question, the basic ones first, then the intermediate     *)
(* ones, then the advanced one, in catalog order within each difficulty     *)
(* (questions 1, 6, 2, 3, 7); get_evaluation_subset(1) returns one          *)
(* question, a basic one; get_evaluation_subset(n) is the prefix of length  *)
(* n of the five.                                                           *)
C14_SubsetGroupedByDifficulty ==
    Called("get_evaluation_subset") =>
        /\ Argument = 5 => /\ TwoTwoOne(Result)
                           /\ Ids(Result) = <<1, 6, 2, 3, 7>>
        /\ Argument = 1 => Len(Result) = 1 /\ Result[1].difficulty = BASIC
        /\ GroupedOrder(Result)
        /\ PrefixOfFive(Result, Argument)

\* five questions were asked for: the second basic question, the sixth of
\* the catalog, comes before the second question of the catalog
C14_Witness ==
    /\ Called("get_evaluation_subset")
    /\ Argument = 5
    /\ Result[2].id = 6
    /\ Result[3].id = 2

-----------------------------------------------------------------------------
\* (3 f + 3 r + 2 p + 2 c) / 10
Weighted(f, r, p, c) ==
    RDiv(RAdd(RAdd(RMul(Rat(3, 1), f), RMul(Rat(3, 1), r)),
              RAdd(RMul(Rat(2, 1), p), RMul(Rat(2, 1), c))), 10)

(* C15: every RAGAS item that was scored has overall_score = 0.3 *          *)
(* faithfulness + 0.3 * answer_relevancy + 0.2 * context_precision + 0.2 *  *)
(* context_recall, and for every batch of results avg_overall_score is the  *)
(* same weighted sum of the four batch means.                               *)
C15_WeightedSum ==
    /\ (Called("evaluate_single_qa") /\ Result.details = "scored")
          => Result.overall_score
                = Weighted(Result.faithfulness, Result.answer_relevancy,
                           Result.context_precision, Result.context_recall)
    /\ (Called("get_aggregate_metrics") /\ Argument # <<>>)
          => /\ Result # NONE
             /\ Result[1].avg_overall_score
                   = Weighted(Result[1].avg_faithfulness, Result[1].avg_answer_relevancy,
                              Result[1].avg_context_precision,
                              Result[1].avg_context_recall)

\* a batch of two different results, one of them with dimensions that differ,
\* and an average that is neither 0 nor 1
C15_Witness ==
    /\ Called("get_aggregate_metrics")
    /\ Len(Argument) = 2
    /\ Argument[1] # Argument[2]
    /\ Argument[1].faithfulness # Argument[1].context_recall
    /\ RLess(Zero, Result[1].avg_overall_score)
    /\ RLess(Result[1].avg_overall_score, One)

-----------------------------------------------------------------------------
DimensionSum(g) ==
    RAdd(RAdd(g.robustness_score, g.bias_score),
         RAdd(g.performance_score, g.consistency_score))

(* C16: every GiskardResult returned by evaluate_comprehensive, the one for *)
(* an empty list of Q&A pairs and those built from error defaults included, *)
(* has overall_risk_score = 1 - (robustness_score + bias_score +            *)
(* performance_score + consistency_score) / 4.                              *)
C16_RiskIsOneMinusMean ==
    Called("evaluate_comprehensive")
        => Result.overall_risk_score = RSub(One, RDiv(DimensionSum(Result), 4))

\* a result built from the error default of the bias dimension and from
\* judged scores that differ from it
C16_Witness ==
    /\ Called("evaluate_comprehensive")
    /\ Argument[1] # <<>>
    /\ Argument[3].bias = RAISE
    /\ Argument[3].performance = Ok(One)
    /\ Argument[3].consistency = Ok(Zero)
    /\ RLess(Zero, Result.overall_risk_score)
    /\ RLess(Result.overall_risk_score, One)

-----------------------------------------------------------------------------
\* the bias judge answered for a list with pairs in it
BiasJudged == Called("evaluate_bias") /\ Argument[1] # <<>> /\ Argument[2] # RAISE

\* how many biases the three heuristics find in the answers of the call
HeuristicFindings == Len(heuristic_biases(Argument[1]))

\* score - 0.1 * n, floored at 0.0
Decremented(score, n) == RMax(Zero, RSub(score, Rat(n, 10)))

(* C17, as stated: the final bias score is the judge's bias score minus 0.1 *)
(* for each bias the heuristics detect (geographic, temporal, methodology), *)
(* floored at 0.0; the biases the judge itself reports do not change the    *)
(* number of decrements.                                                    *)
C17_HeuristicDecrementsOnly ==
    BiasJudged
        => Result.score = Decremented(Argument[2][2].score, HeuristicFindings)

(* C17: the final bias score is the judge's bias score minus 0.1 for each   *)
(* detected bias, those the heuristics detect and those the judge itself    *)
(* reports counted alike, floored at 0.0.                                   *)
C17_AllBiasesDecrement ==
    BiasJudged
        => /\ Result.score
                 = Decremented(Argument[2][2].score,
                               HeuristicFindings + Len(Argument[2][2].detected_biases))
           /\ Len(Result.detected_biases)
                 = HeuristicFindings + Len(Argument[2][2].detected_biases)

\* the geographic heuristic fires, the judge reports a bias of its own, and
\* the score of 1.0 is left at 0.8
C17_Witness ==
    /\ BiasJudged
    /\ heuristic_biases(Argument[1]) = <<"Possível viés geográfico detectado">>
    /\ Len(Argument[2][2].detected_biases) = 1
    /\ Argument[2][2].score = One
    /\ Result.score = Rat(8, 10)

-----------------------------------------------------------------------------
AllInUnit(scores) == \A i \in DOMAIN scores : InUnit(scores[i])

Averages(m) ==
    <<m.avg_faithfulness, m.avg_answer_relevancy, m.avg_context_precision,
      m.avg_context_recall, m.avg_overall_score>>

GiskardScoresOf(g) ==
    <<g.robustness_score, g.bias_score, g.performance_score, g.consistency_score,
      g.overall_risk_score>>

(* C18: when every score a judge returns lies in [0,1], so does every score *)
(* of every RAGASResult and GiskardResult: the similarity of each variant   *)
(* and the per-axis averages, the blended robustness score, the penalised   *)
(* bias score, the error defaults, the RAGAS overall score and its batch    *)
(* averages, and the GISKARD overall risk score.                            *)
C18_ScoresInUnitInterval ==
    /\ Called("evaluate_single_qa") => AllInUnit(RagasScores(Result))
    /\ (Called("get_aggregate_metrics") /\ Result # NONE)
          => AllInUnit(Averages(Result[1]))
    /\ Called("evaluate_robustness")
          => /\ InUnit(Result.score)
             /\ AllInUnit(Result.stress_test_results)
             /\ \A i \in DOMAIN Result.scores : AllInUnit(Result.scores[i])
    /\ Called("evaluate_bias") => InUnit(Result.score)
    /\ Called("evaluate_performance") => InUnit(Result.score)
    /\ Called("evaluate_consistency") => InUnit(Result.score)
    /\ Called("evaluate_comprehensive")
          => /\ AllInUnit(GiskardScoresOf(Result))
             /\ Result.details # NONE
                   => AllInUnit(Result.details[1].stress_test_results)

\* every variant is answered like the original and the judge gives 1.0: the
\* blended robustness score is at the upper end of the interval
C18_Witness ==
    /\ Called("evaluate_robustness")
    /\ Argument[3] = Ok(One)
    /\ \A i \in DOMAIN Result.stress_test_results : Result.stress_test_results[i] = One
    /\ Result.score = One

-----------------------------------------------------------------------------
\* how often v stands in the list
Occurrences(list, v) == Cardinality({i \in DOMAIN list : list[i] = v})

Blank(variant) == Strip(variant) = <<>>
NotBlank(variant) == ~Blank(variant)

\* the variants the six generators make of the question of the call
Generated == robustness_tests(Argument[1].question)

-----------------------------------------------------------------------------
\* the dashboard was drawn with results of both engines
HealthShown == Called("render_insights_dashboard") /\ Result # NONE

\* the mean of the mean RAGAS overall score and the mean of the four
\* dimension scores of GISKARD
MeanOfMeans(ragas, giskard) ==
    LET overall == List([i \in DOMAIN ragas |-> ragas[i].overall_score])
        dimensions == <<giskard.robustness_score, giskard.bias_score,
                        giskard.performance_score, giskard.consistency_score>>
    IN RDiv(RAdd(np_mean(overall), np_mean(dimensions)), 2)

Band(h) ==
    {level \in {"Excelente", "Bom", "Moderado", "Necessita Melhoria"} :
        \/ level = "Excelente" /\ RLess(Rat(8, 10), h)
        \/ level = "Bom" /\ RLess(Rat(6, 10), h) /\ RLeq(h, Rat(8, 10))
        \/ level = "Moderado" /\ RLess(Rat(4, 10), h) /\ RLeq(h, Rat(6, 10))
        \/ level = "Necessita Melhoria" /\ RLeq(h, Rat(4, 10))}

(* C20: the system-health value is the mean of the mean RAGAS overall score *)
(* and the GISKARD composite (the mean of the four dimension scores); it is *)
(* Excellent when > 0.8, Good when > 0.6 and <= 0.8, Moderate when > 0.4    *)
(* and <= 0.6, Needs-Improvement otherwise, and exactly one band applies to *)
(* every value of [0,1].                                                    *)
C20_HealthBands ==
    HealthShown =>
        /\ Result[1].overall_health = MeanOfMeans(Argument[1], Argument[2][1])
        /\ InUnit(Result[1].overall_health)
        /\ Band(Result[1].overall_health) = {Result[1].health_level}

\* a health of exactly 0.8 is Good, not Excellent
C20_Witness ==
    /\ HealthShown
    /\ Result[1].overall_health = Rat(8, 10)
    /\ Result[1].health_level = "Bom"

-----------------------------------------------------------------------------
\* the values of an enumeration
Values(enum) == {enum[i] : i \in DOMAIN enum}

\* ten questions, no id twice, every category and difficulty a defined one
WellFormedCatalog(qs) ==
    /\ Len(qs) = 10
    /\ \A i, j \in DOMAIN qs : qs[i].id = qs[j].id => i = j
    /\ \A i \in DOMAIN qs :
          /\ qs[i].category \in Values(QuestionCategory)
          /\ qs[i].difficulty \in Values(DifficultyLevel)

(* C21: the evaluation catalog always holds exactly 10 questions with       *)
(* distinct ids, each with one of the five categories and one of the three  *)
(* difficulty levels, and no operation of the dataset (get_all_questions,   *)
(* get_questions_by_category, get_questions_by_difficulty,                  *)
(* get_question_by_id, get_evaluation_subset, search_questions,             *)
(* get_statistics, to_dict_format) changes it.                              *)
C21_CatalogFixed ==
    /\ [](/\ WellFormedCatalog(bhc_questions)
          /\ Cardinality(Values(QuestionCategory)) = 5
          /\ Cardinality(Values(DifficultyLevel)) = 3)
    /\ [][bhc_questions' = bhc_questions]_vars

\* a search has returned some of the questions, and the catalog has all ten
C21_Witness ==
    /\ Called("search_questions")
    /\ Len(Result) \in 1..9
    /\ Len(bhc_questions) = 10
    /\ \A i \in DOMAIN Result : \E j \in DOMAIN bhc_questions : bhc_questions[j] = Result[i]

-----------------------------------------------------------------------------
\* for each term of a category, the answers of the call that hold it
MentionCounts(terms) == Mentions(terms, LoweredAnswers(Argument[1]))

AsScores(counts) == List([i \in DOMAIN counts |-> Rat(counts[i], 1)])

\* among the terms that are mentioned, the highest count is above k times
\* the mean count
AboveMean(counts, k) ==
    LET mentioned == SelectSeq(counts, Positive) IN
    /\ mentioned # <<>>
    /\ RLess(RMul(Rat(k, 1), np_mean(AsScores(mentioned))), Rat(MaxInt(mentioned), 1))

\* the terms of a category are mentioned more than 0.7 times per answer
AbovePerAnswer(counts, pairs) == RLess(RMul(Rat(7, 10), Rat(Len(pairs), 1)), Rat(SumInt(counts), 1))

Flagged(message) == \E i \in DOMAIN Result.detected_biases : Result.detected_biases[i] = message

GeographicFlag == "Possível viés geográfico detectado"
TemporalFlag == "Possível viés temporal detectado"
MethodologyFlag == "Possível viés metodológico detectado"

(* C22, as stated: in bias evaluation each of the three term categories     *)
(* (geographic, temporal, methodology) is flagged exactly when the highest  *)
(* per-term mention count of the category exceeds 3 times the mean mention  *)
(* count over the mentioned terms of the category.                          *)
C22_ThriceTheMeanEach ==
    BiasJudged
        => /\ Flagged(GeographicFlag) <=> AboveMean(MentionCounts(geographic_terms), 3)
           /\ Flagged(TemporalFlag) <=> AboveMean(MentionCounts(temporal_terms), 3)
           /\ Flagged(MethodologyFlag) <=> AboveMean(MentionCounts(methods), 3)

(* C22: in bias evaluation the geographic category is flagged exactly when  *)
(* the highest per-term mention count exceeds 3 times the mean count over   *)
(* the mentioned geographic terms, the methodology category exactly when it *)
(* exceeds 2 times that mean over the mentioned methods, and the temporal   *)
(* category exactly when the temporal terms are mentioned more than 0.7     *)
(* times per answer in total, however the mentions are spread.              *)
C22_FlagPerCategory ==
    BiasJudged
        => /\ Flagged(GeographicFlag) <=> AboveMean(MentionCounts(geographic_terms), 3)
           /\ Flagged(TemporalFlag)
                 <=> AbovePerAnswer(MentionCounts(temporal_terms), Argument[1])
           /\ Flagged(MethodologyFlag) <=> AboveMean(MentionCounts(methods), 2)

\* one method is mentioned four times, the other three once: more than twice
\* the mean of 7/4, not more than three times, and the category is flagged
C22_Witness ==
    /\ BiasJudged
    /\ MentionCounts(methods) = <<4, 1, 1, 1>>
    /\ Flagged(MethodologyFlag)
    /\ ~AboveMean(MentionCounts(methods), 3)
    /\ ~Flagged(GeographicFlag)

-----------------------------------------------------------------------------
(* Observations of a call of the document processor *)

Processing == dcall # NONE /\ dcall[1].fn \in {"process_file", "process_local_file"}

\* the call, and the session as it is now
TheCall == dcall[1]
SessionNow == [processed_file |-> processed_file, retriever |-> retriever]

\* the call was made for the file the session has recorded
SameKey == TheCall.key # NONE /\ TheCall.before.processed_file = TheCall.key
OtherKey == TheCall.key # NONE /\ TheCall.before.processed_file # TheCall.key

\* the cached retriever is returned and nothing is loaded, chunked or embedded
ServedFromCache ==
    /\ TheCall.returned = TheCall.before.retriever
    /\ TheCall.returned # NONE
    /\ TheCall.stages = <<>>
    /\ SessionNow = TheCall.before

\* all three stages were run, and the session holds the key of the file and
\* the retriever built for it, which is returned
Replaced ==
    /\ TheCall.stages = <<"load", "chunk", "embed">>
    /\ processed_file = TheCall.key
    /\ retriever = Some(Built(TheCall.key[1]))
    /\ TheCall.returned = retriever

\* nothing is returned and the session is what it was
Refused == TheCall.returned = NONE /\ SessionNow = TheCall.before

\* an uploaded file of a type that is not supported
Unsupported ==
    /\ TheCall.fn = "process_file"
    /\ TheCall.argument # NONE
    /\ ~is_supported(TheCall.argument[1])

(* C23, as stated: after a file has been processed successfully, a later    *)
(* process_file or process_local_file call with the file key the session    *)
(* has recorded returns the cached retriever without loading, chunking or   *)
(* embedding again, while a call for a file with a different key runs the   *)
(* full pipeline and replaces both processed_file and retriever.            *)
C23_CachedElseReplaced ==
    Processing
        => /\ SameKey => ServedFromCache
           /\ OtherKey => Replaced

(* C23: a process_file or process_local_file call with the file key the     *)
(* session has recorded returns the cached retriever without loading,       *)
(* chunking or embedding again. A call with a different key starts the      *)
(* pipeline, unless it is an upload of an unsupported type, which is        *)
(* refused before loading; when no stage fails it replaces both             *)
(* processed_file and retriever, and when a stage fails it returns None and *)
(* leaves both as they were.                                                *)
C23_CachedElseProcessed ==
    Processing
        => /\ SameKey => ServedFromCache
           /\ (OtherKey /\ Unsupported) => (Refused /\ TheCall.stages = <<>>)
           /\ (OtherKey /\ ~Unsupported)
                 => /\ TheCall.stages # <<>>
                    /\ TheCall.pipeline = "ok" => Replaced
                    /\ TheCall.pipeline # "ok" => Refused

\* the upload is processed a second time: its retriever comes from the cache
C23_Witness ==
    /\ Processing
    /\ TheCall.fn = "process_file"
    /\ SameKey
    /\ TheCall.returned = Some(Built(get_file_key(SupportedFile)))
    /\ TheCall.stages = <<>>
    /\ TheCall.pipeline = "load"

-----------------------------------------------------------------------------
(* C29: if a stage of the pipeline (load, chunk or embed) fails, the call   *)
(* of process_file or process_local_file, main's own included, returns None *)
(* and the session's processed_file and retriever are what they were before *)
(* the call: a retriever cached earlier stays in the session and the file   *)
(* that failed is not recorded as processed.                                *)
StageFailed ==
    /\ dcall # NONE
    /\ TheCall.fn \in {"process_file", "process_local_file", "main"}
    /\ TheCall.stages # <<>>
    /\ TheCall.pipeline # "ok"

C29_FailureLeavesSession ==
    StageFailed
        => /\ TheCall.returned = NONE
           /\ processed_file = TheCall.before.processed_file
           /\ retriever = TheCall.before.retriever
           /\ processed_file # TheCall.key
           /\ TheCall.stages[Len(TheCall.stages)] = TheCall.pipeline

\* the embedding of an upload fails while the session holds the retriever of
\* the local document, which stays
C29_Witness ==
    /\ StageFailed
    /\ TheCall.fn = "process_file"
    /\ TheCall.pipeline = "embed"
    /\ TheCall.stages = <<"load", "chunk", "embed">>
    /\ retriever = Some(Built(local_file_key(local_pdf_path)))
    /\ processed_file = Some(local_pdf_path)

-----------------------------------------------------------------------------
(* C24: the session's retriever and processed_file are read-only for the    *)
(* workflow. No step of the graph (Retrieve, Grade, Generate and the        *)
(* conditional edge) and no call of set_retriever or get_current_retriever  *)
(* writes them; set_retriever stores its argument with the session's file   *)
(* key, or clears both, and get_current_retriever returns the workflow's    *)
(* own retriever, taking over the session's when it has none.               *)
HandleCalled == dcall # NONE /\ TheCall.fn \in {"set_retriever", "get_current_retriever"}

\* a step of the graph, or the step in which the handle is called
WorkflowStep == pc # Idle \/ (dcall = NONE /\ HandleCalled')

HandleEffect ==
    /\ (dcall # NONE /\ TheCall.fn = "set_retriever")
          => /\ wf_retriever = TheCall.argument
             /\ wf_key = IF TheCall.argument = NONE THEN NONE
                                                       ELSE TheCall.before.processed_file
    /\ (dcall # NONE /\ TheCall.fn = "get_current_retriever")
          => /\ wf_retriever = TheCall.returned
             /\ TheCall.returned \in {TheCall.before.retriever, wf_retriever}
             /\ TheCall.returned = NONE => TheCall.before.retriever = NONE
    /\ HandleCalled => SessionNow = TheCall.before

C24_SessionReadOnly ==
    /\ []HandleEffect
    /\ [][WorkflowStep => UNCHANGED <<processed_file, retriever, local_file_processed>>]_vars

\* the workflow had no retriever and took over the one of the session, which
\* the session still holds
C24_Witness ==
    /\ dcall # NONE
    /\ TheCall.fn = "get_current_retriever"
    /\ TheCall.returned = Some(Built(local_file_key(local_pdf_path)))
    /\ wf_retriever = retriever
    /\ wf_key = NONE
    /\ processed_file = Some(local_pdf_path)

-----------------------------------------------------------------------------
(* C25: after every Grading step search_method is "online" exactly when     *)
(* online_search is true and "documents" otherwise; Grading never lowers an *)
(* online_search flag that was true on entry; and when retrieval returned   *)
(* no passages and the flag is not set, the result is "documents" with an   *)
(* empty passage list.                                                      *)
GradingReturned == Called("_evaluate") /\ Result # RAISE

C25_SearchMethodFollowsFlag ==
    GradingReturned
        => LET out == Result[2] IN
           /\ out.search_method = (IF out.online_search THEN "online" ELSE "documents")
           /\ out.search_method = "online" <=> out.online_search
           /\ Argument.online_search = Some(TRUE) => out.online_search
           /\ (Argument.documents = <<>> /\ Argument.online_search # Some(TRUE))
                 => /\ out.search_method = "documents"
                    /\ out.documents = <<>>
                    /\ ~out.online_search

\* the flag was up on entry and every passage was judged relevant: the flag
\* stays up and the method is "online"
C25_Witness ==
    /\ GradingReturned
    /\ Argument.online_search = Some(TRUE)
    /\ Argument.documents = <<"p1", "p2">>
    /\ Result[2].documents = <<"p1", "p2">>
    /\ Result[2].online_search
    /\ Result[2].search_method = "online"

-----------------------------------------------------------------------------
(* C26: Generate Answer, on every attempt, leaves question, the filtered    *)
(* passage list, online_search, search_method and document_evaluations      *)
(* unchanged; it only sets solution, increments retry_count and, on the     *)
(* fallback path, sets no_documents_available, so that every regeneration   *)
(* is given the same passages.                                              *)
GenerateStep == genCalls' = genCalls + 1

GenerateFrame ==
    /\ question' = question
    /\ documents' = documents
    /\ online_search' = online_search
    /\ search_method' = search_method
    /\ document_evaluations' = document_evaluations
    /\ retry_limit_reached' = retry_limit_reached

GenerateEffect ==
    IF attempts' = attempts
    THEN UNCHANGED <<solution, retry_count, no_documents_available>>
    ELSE /\ solution' # NONE
         /\ retry_count' = Some(StateGet(retry_count, 0) + 1)
         /\ no_documents_available' =
                IF documents[1] = <<>> THEN Some(TRUE) ELSE no_documents_available

SamePassagesAgain ==
    (lastGen.path = "model" /\ lastGen'.path = "model")
        => lastGen'.context = lastGen.context

C26_GenerateKeepsGrading ==
    [][GenerateStep => (GenerateFrame /\ GenerateEffect /\ SamePassagesAgain)]_vars

\* a second answer has been generated from the two passages of the first
C26_Witness ==
    /\ attempts = 2
    /\ retry_count = Some(2)
    /\ lastGen.path = "model"
    /\ lastGen.context = Some(<<"p1", "p2">>)
    /\ documents = Some(<<"p1", "p2">>)
    /\ search_method = Some("documents")
    /\ no_documents_available = NONE

-----------------------------------------------------------------------------
(* C27: a RAGAS-only run replaces the cached ragas_results and leaves the   *)
(* cached giskard_results unchanged, a GISKARD-only run does the converse,  *)
(* at most one of the three run modes executes in an interaction, and       *)
(* clear_cached_results returns the cache to its initial state: both        *)
(* results None, no evaluation time, no settings.                           *)
RunReturns == epc \in {"ragas", "giskard"} /\ epc' = "returned"

OnlyFieldWritten ==
    /\ (RunReturns /\ button = "run_ragas")
          => /\ evaluation_results'.ragas_results = Some(ragas_results)
             /\ evaluation_results'.giskard_results = evaluation_results.giskard_results
             /\ evaluation_results'.last_evaluation_time
                    = evaluation_results.last_evaluation_time
             /\ evaluation_results'.evaluation_settings
                    = evaluation_results.evaluation_settings
    /\ (RunReturns /\ button = "run_giskard")
          => /\ evaluation_results'.giskard_results = giskard_results'
             /\ evaluation_results'.ragas_results = evaluation_results.ragas_results
             /\ evaluation_results'.last_evaluation_time
                    = evaluation_results.last_evaluation_time
             /\ evaluation_results'.evaluation_settings
                    = evaluation_results.evaluation_settings

ClearedToInitial ==
    (epc = "idle" /\ epc' = "idle" /\ evaluation_results' # evaluation_results)
        => /\ evaluation_results'.ragas_results = NONE
           /\ evaluation_results'.giskard_results = NONE
           /\ evaluation_results'.last_evaluation_time = NONE
           /\ evaluation_results'.evaluation_settings = NONE
           /\ evaluation_results' = initialize_session_state

\* the mode of the interaction is the only one that called the workflow, and
\* the cache is written when its run returns and at no other step of it
OneModeRuns ==
    /\ button = "run_ragas"
          => CalledFor(workflowLog, "giskard") = <<>> /\ giskardCall = NONE
    /\ button = "run_giskard"
          => CalledFor(workflowLog, "ragas") = <<>> /\ ragas_results = <<>>
    /\ epc # "idle" => button \in Buttons

OneWrite ==
    /\ epc \in {"ragas", "giskard"} => button' = button
    /\ (epc # "idle" /\ evaluation_results' # evaluation_results) => epc' = "returned"

C27_RunsWriteTheirOwnField ==
    /\ []OneModeRuns
    /\ [][OnlyFieldWritten /\ ClearedToInitial /\ OneWrite]_vars

\* a RAGAS-only run has returned and stored its list next to the result an
\* earlier GISKARD-only run left in the cache
C27_Witness ==
    /\ epc = "returned"
    /\ button = "run_ragas"
    /\ ragas_results # <<>>
    /\ evaluation_results.ragas_results = Some(ragas_results)
    /\ evaluation_results.giskard_results # NONE
    /\ evaluation_results.last_evaluation_time = NONE

-----------------------------------------------------------------------------
(* C28: in run_giskard_evaluation, qa_pairs and response_times always have  *)
(* the same length and the i-th time is the time of the workflow call that  *)
(* produced the i-th pair; if no question yields a solution the run returns *)
(* None and the GISKARD evaluator is not invoked.                           *)
TimeOfPair(i) ==
    /\ response_times[i].call \in 1..Len(workflowLog)
    /\ workflowLog[response_times[i].call] = <<"giskard", qa_pairs[i].id>>
    /\ i > 1 => response_times[i - 1].call < response_times[i].call

C28_TimesAlignedWithPairs ==
    /\ Len(response_times) = Len(qa_pairs)
    /\ \A i \in 1..Len(qa_pairs) : TimeOfPair(i)
    /\ giskardCall # NONE
          => /\ giskardCall[1].qa_pairs = qa_pairs
             /\ giskardCall[1].response_times = response_times
             /\ qa_pairs # <<>>
    /\ (GiskardRan /\ qa_pairs = <<>>)
          => giskard_results = NONE /\ giskardCall = NONE

\* the first of two questions gave no solution: the one pair collected goes
\* to the evaluator with the time of the second call
C28_Witness ==
    /\ GiskardRan
    /\ button = "run_giskard"
    /\ Len(questions) = 2
    /\ Len(qa_pairs) = 1
    /\ qa_pairs[1].id = questions[2].id
    /\ response_times = <<[call |-> 2]>>
    /\ giskardCall = Some([qa_pairs |-> qa_pairs, response_times |-> response_times])

-----------------------------------------------------------------------------
(* C30: for n >= 0, get_evaluation_subset(n) returns min(n, 5) questions; a *)
(* request above 5, such as the option 10 of the interface, never yields    *)
(* more than five, so an evaluation run processes at most five questions.   *)
SubsetAsked == Called("get_evaluation_subset")

C30_SubsetAtMostFive ==
    SubsetAsked
        => /\ Len(Result) = (IF Argument < 5 THEN Argument ELSE 5)
           /\ Len(Result) <= 5
           /\ Argument > 5 => Result = get_evaluation_subset(5)
           /\ Argument \in QuestionOptions => Len(Result) \in {3, 5}
           /\ \A i \in 1..Len(Result) : \A j \in 1..Len(Result) :
                  i # j => Result[i].id # Result[j].id

\* the option 10 of the interface yields the five questions of the selection
C30_Witness ==
    /\ SubsetAsked
    /\ Argument = 10
    /\ Argument \in QuestionOptions
    /\ Len(Result) = 5
    /\ Len(Catalog) = 10

====
